---- MODULE Spec2Model ----
(***************************************************************************)
(* A model of the NCDHHS PDF pipeline of src/src/pdf_processor.py: the      *)
(* pure helpers (sanitize_filename, sanitize_folder_name,                  *)
(* categorize_section), link discovery, download validation, the upload    *)
(* key, and process_pdfs as a state machine stepping through one link at a *)
(* time.                                                                   *)
(*                                                                         *)
(* Python strings are sequences of one-character strings, so that the      *)
(* regular-expression substitutions, lower-casing, substring tests and URL *)
(* parsing are computed character by character as the code computes them.  *)
(***************************************************************************)
EXTENDS Integers, Sequences, FiniteSets, TLC

\* ------------------------------------------------------------------------
\* Characters and the str methods the code uses
\* ------------------------------------------------------------------------

\* An assignment statement: F applied to the value of v. (The value is
\* computed once, however often F uses it.)
Let(v, F(_)) ==
    CHOOSE r \in {F(x) : x \in {v}} : TRUE

Range(s) ==
    {s[k] : k \in 1..Len(s)}

UpperLetters ==
    <<"A","B","C","D","E","F","G","H","I","J","K","L","M",
      "N","O","P","Q","R","S","T","U","V","W","X","Y","Z">>

LowerLetters ==
    <<"a","b","c","d","e","f","g","h","i","j","k","l","m",
      "n","o","p","q","r","s","t","u","v","w","x","y","z">>

Uppers ==
    Range(UpperLetters)

Lowers ==
    Range(LowerLetters)

Digits ==
    {"0","1","2","3","4","5","6","7","8","9"}

\* [a-zA-Z0-9]
Alnum ==
    Uppers \cup Lowers \cup Digits

\* The characters the regular expression class \s and str.strip() treat as
\* white space (the ASCII ones).
Whitespace ==
    {" ", "\t", "\n", "\r", "\f"}

\* The characters a model string may hold: the ASCII letters, digits, white
\* space and the punctuation of file names and URLs.
Punctuation ==
    {".", "-", "_", "/", ":", "?", "#", "=", "&", "@", "$", ";", "%", "(",
     ")", "<", ">", "+", ","}

Alphabet ==
    Alnum \cup Whitespace \cup Punctuation

\* str.lower() on one character.
lower_char(c) ==
    IF c \in Uppers
    THEN LowerLetters[CHOOSE k \in 1..26 : UpperLetters[k] = c]
    ELSE c

\* str.lower()
lower(s) ==
    [k \in 1..Len(s) |-> lower_char(s[k])]

\* keyword in text: the substring test.
Contains(text, kw) ==
    \E k \in 1..(Len(text) - Len(kw) + 1) :
        \A j \in 1..Len(kw) : text[k + j - 1] = kw[j]

\* str.startswith, str.endswith
startswith(s, p) ==
    /\ Len(p) <= Len(s)
    /\ \A j \in 1..Len(p) : s[j] = p[j]

endswith(s, p) ==
    /\ Len(p) <= Len(s)
    /\ \A j \in 1..Len(p) : s[Len(s) - Len(p) + j] = p[j]

\* str.find for a set of one-character strings: the first index (from 1) at
\* or after from of a character of cs, or 0 when there is none.
find_from(s, cs, from) ==
    IF \E k \in from..Len(s) : s[k] \in cs
    THEN CHOOSE k \in from..Len(s) :
             /\ s[k] \in cs
             /\ \A j \in from..(k - 1) : s[j] \notin cs
    ELSE 0

\* str.rfind(c): the last index of c, or 0.
rfind(s, c) ==
    IF \E k \in 1..Len(s) : s[k] = c
    THEN CHOOSE k \in 1..Len(s) :
             /\ s[k] = c
             /\ \A j \in (k + 1)..Len(s) : s[j] # c
    ELSE 0

\* re.sub(r'[class]', rep, s): every character of the class replaced by rep.
sub_each(s, class, rep) ==
    [k \in 1..Len(s) |-> IF s[k] \in class THEN rep ELSE s[k]]

\* re.sub(r'[class]', '', s): every character of the class removed.
remove_each(s, class) ==
    SelectSeq(s, LAMBDA c : c \notin class)

\* re.sub(r'[class]+', rep, s): every maximal run of characters of the class
\* replaced by one rep. kept holds the indices of the characters outside the
\* class and of the first character of each run.
sub_runs(s, class, rep) ==
    Let(SelectSeq([k \in 1..Len(s) |-> k],
                  LAMBDA k : s[k] \notin class \/ k = 1 \/ s[k - 1] \notin class),
        LAMBDA kept :
            [j \in 1..Len(kept) |->
                IF s[kept[j]] \in class THEN rep ELSE s[kept[j]]])

\* str.strip(): leading and trailing white space removed.
strip(s) ==
    IF \A k \in 1..Len(s) : s[k] \in Whitespace THEN <<>>
    ELSE SubSeq(s,
                CHOOSE k \in 1..Len(s) :
                    /\ s[k] \notin Whitespace
                    /\ \A j \in 1..(k - 1) : s[j] \in Whitespace,
                CHOOSE k \in 1..Len(s) :
                    /\ s[k] \notin Whitespace
                    /\ \A j \in (k + 1)..Len(s) : s[j] \in Whitespace)

\* ------------------------------------------------------------------------
\* sanitize_filename, sanitize_folder_name
\* ------------------------------------------------------------------------

\* [^a-zA-Z0-9.-] over the alphabet.
FilenameInvalid ==
    Alphabet \ (Alnum \cup {".", "-"})

\* [^a-zA-Z0-9\s-] over the alphabet.
FolderInvalid ==
    Alphabet \ (Alnum \cup Whitespace \cup {"-"})

\* sanitize_filename without the second substitution: runs of underscores
\* stay.
sanitize_filename_without_collapse(filename) ==
    Let(sub_each(filename, FilenameInvalid, "_"), LAMBDA replaced :
        lower(replaced))

\* sanitize_filename without .lower().
sanitize_filename_keeping_case(filename) ==
    Let(sub_each(filename, FilenameInvalid, "_"), LAMBDA replaced :
        sub_runs(replaced, {"_"}, "_"))

sanitize_filename(filename) ==
    Let(sub_each(filename, FilenameInvalid, "_"), LAMBDA replaced :
    Let(sub_runs(replaced, {"_"}, "_"), LAMBDA collapsed :
        lower(collapsed)))

\* sanitize_folder_name with two statements swapped: the hyphen runs are
\* collapsed before the white space is replaced.
sanitize_folder_name_hyphens_first(folder_name) ==
    Let(remove_each(folder_name, FolderInvalid), LAMBDA removed :
    Let(sub_runs(removed, {"-"}, "-"), LAMBDA collapsed :
    Let(sub_runs(collapsed, Whitespace, "-"), LAMBDA hyphenated :
    Let(lower(hyphenated), LAMBDA lowered :
        strip(lowered)))))

sanitize_folder_name(folder_name) ==
    Let(remove_each(folder_name, FolderInvalid), LAMBDA removed :
    Let(sub_runs(removed, Whitespace, "-"), LAMBDA hyphenated :
    Let(sub_runs(hyphenated, {"-"}, "-"), LAMBDA collapsed :
    Let(lower(collapsed), LAMBDA lowered :
        strip(lowered)))))

\* ------------------------------------------------------------------------
\* categorize_section
\* ------------------------------------------------------------------------

\* The category labels of categorize_section, as character sequences.
ChildWelfareManuals ==
    <<"c","h","i","l","d","-","w","e","l","f","a","r","e","-","m","a","n","u","a","l","s">>
ChildWelfareAppendices ==
    <<"c","h","i","l","d","-","w","e","l","f","a","r","e","-","a","p","p","e","n","d","i","c","e","s">>
ChildWelfarePracticeResources ==
    <<"c","h","i","l","d","-","w","e","l","f","a","r","e","-","p","r","a","c","t","i","c","e","-","r","e","s","o","u","r","c","e","s">>
SafeSleepResources ==
    <<"s","a","f","e","-","s","l","e","e","p","-","r","e","s","o","u","r","c","e","s">>
DisasterPreparedness ==
    <<"d","i","s","a","s","t","e","r","-","p","r","e","p","a","r","e","d","n","e","s","s">>
PathSdmToolsManuals ==
    <<"p","a","t","h","-","s","d","m","-","t","o","o","l","s","-","m","a","n","u","a","l","s">>
AdministrativeManuals ==
    <<"a","d","m","i","n","i","s","t","r","a","t","i","v","e","-","m","a","n","u","a","l","s">>
OtherResources ==
    <<"o","t","h","e","r","-","r","e","s","o","u","r","c","e","s">>

\* ManualsKeywords with the bare word 'manual' as a keyword.
ManualsKeywords_with_manual ==
    << <<"m","a","n","u","a","l">>,
       <<"c","h","i","l","d"," ","w","e","l","f","a","r","e"," ","m","a","n","u","a","l">>,
       <<"c","w","s"," ","m","a","n","u","a","l">>,
       <<"a","d","o","p","t","i","o","n","s">>,
       <<"c","p","s","-","a","s","s","e","s","s","m","e","n","t","s">>,
       <<"c","p","s","-","i","n","t","a","k","e">>,
       <<"c","r","o","s","s","-","f","u","n","c","t","i","o","n","s">>,
       <<"p","e","r","m","a","n","e","n","c","y","-","p","l","a","n","n","i","n","g">>,
       <<"i","n","-","h","o","m","e">>,
       <<"i","c","p","c">>,
       <<"p","u","r","p","o","s","e">>,
       <<"r","a","m","s","-","m","a","n","u","a","l">>,
       <<"e","v","i","d","e","n","c","e","-","b","a","s","e","d","-","p","r","e","v","e","n","t","i","o","n">> >>

\* The keyword lists of the seven rules, in the order the code tests them.
ManualsKeywords ==
    << <<"c","h","i","l","d"," ","w","e","l","f","a","r","e"," ","m","a","n","u","a","l">>,
       <<"c","w","s"," ","m","a","n","u","a","l">>,
       <<"a","d","o","p","t","i","o","n","s">>,
       <<"c","p","s","-","a","s","s","e","s","s","m","e","n","t","s">>,
       <<"c","p","s","-","i","n","t","a","k","e">>,
       <<"c","r","o","s","s","-","f","u","n","c","t","i","o","n","s">>,
       <<"p","e","r","m","a","n","e","n","c","y","-","p","l","a","n","n","i","n","g">>,
       <<"i","n","-","h","o","m","e">>,
       <<"i","c","p","c">>,
       <<"p","u","r","p","o","s","e">>,
       <<"r","a","m","s","-","m","a","n","u","a","l">>,
       <<"e","v","i","d","e","n","c","e","-","b","a","s","e","d","-","p","r","e","v","e","n","t","i","o","n">> >>
AppendicesKeywords ==
    << <<"a","p","p","e","n","d","i","x">>,
       <<"f","u","n","d","i","n","g">>,
       <<"p","r","e","g","n","a","n","c","y","-","s","e","r","v","i","c","e","s">>,
       <<"c","a","s","e","-","r","e","c","o","r","d">>,
       <<"b","e","s","t","-","p","r","a","c","t","i","c","e">>,
       <<"d","a","t","a","-","c","o","l","l","e","c","t","i","o","n">>,
       <<"c","p","p","s">> >>
PracticeKeywords ==
    << <<"p","r","a","c","t","i","c","e">>,
       <<"r","e","s","o","u","r","c","e">>,
       <<"g","u","i","d","a","n","c","e">>,
       <<"l","g","b","t","q">>,
       <<"f","a","t","a","l","i","t","y">>,
       <<"d","i","s","c","i","p","l","i","n","e">>,
       <<"s","u","b","s","t","a","n","c","e">>,
       <<"s","a","f","e","t","y">>,
       <<"f","i","r","e","a","r","m">>,
       <<"c","i","r","c","l","e","s","-","o","f","-","s","a","f","e","t","y">>,
       <<"c","a","p","p">>,
       <<"c","m","e","p">>,
       <<"r","e","a","s","o","n","a","b","l","e">>,
       <<"p","r","u","d","e","n","t">>,
       <<"y","o","u","t","h","-","i","n","-","t","r","a","n","s","i","t","i","o","n">> >>
SafeSleepKeywords ==
    << <<"s","a","f","e"," ","s","l","e","e","p">>,
       <<"s","a","f","e","s","l","e","e","p">>,
       <<"s","l","e","e","p","-","c","o","m","i","c">> >>
DisasterKeywords ==
    << <<"d","i","s","a","s","t","e","r">>,
       <<"c","o","u","n","t","y","-","a","t","t","e","s","t","a","t","i","o","n">>,
       <<"d","i","s","a","s","t","e","r","-","p","l","a","n">> >>
PathSdmKeywords ==
    << <<"p","a","t","h">>,
       <<"s","d","m">>,
       <<"s","c","r","e","e","n","i","n","g">>,
       <<"r","i","s","k","-","a","s","s","e","s","s","m","e","n","t">>,
       <<"s","a","f","e","t","y","-","m","a","n","u","a","l">>,
       <<"f","s","n","a">>,
       <<"c","s","n","a">>,
       <<"t","e","c","h","n","o","l","o","g","y","-","u","s","a","g","e">> >>
AdministrativeKeywords ==
    << <<"a","d","m","i","n","i","s","t","r","a","t","i","v","e">>,
       <<"d","s","s","-","a","d","m","i","n">> >>

\* any(keyword in text for keyword in [...])
any_keyword(text, keywords) ==
    \E k \in 1..Len(keywords) : Contains(text, keywords[k])

\* first_match with the practice-resources rule tested ahead of the others.
first_match_practice_first(text) ==
    IF any_keyword(text, PracticeKeywords) THEN ChildWelfarePracticeResources
    ELSE IF any_keyword(text, ManualsKeywords) THEN ChildWelfareManuals
    ELSE IF any_keyword(text, AppendicesKeywords) THEN ChildWelfareAppendices
    ELSE IF any_keyword(text, SafeSleepKeywords) THEN SafeSleepResources
    ELSE IF any_keyword(text, DisasterKeywords) THEN DisasterPreparedness
    ELSE IF any_keyword(text, PathSdmKeywords) THEN PathSdmToolsManuals
    ELSE IF any_keyword(text, AdministrativeKeywords) THEN AdministrativeManuals
    ELSE OtherResources

\* The label of the first rule with a keyword in the text.
first_match(text) ==
    IF any_keyword(text, ManualsKeywords) THEN ChildWelfareManuals
    ELSE IF any_keyword(text, AppendicesKeywords) THEN ChildWelfareAppendices
    ELSE IF any_keyword(text, PracticeKeywords) THEN ChildWelfarePracticeResources
    ELSE IF any_keyword(text, SafeSleepKeywords) THEN SafeSleepResources
    ELSE IF any_keyword(text, DisasterKeywords) THEN DisasterPreparedness
    ELSE IF any_keyword(text, PathSdmKeywords) THEN PathSdmToolsManuals
    ELSE IF any_keyword(text, AdministrativeKeywords) THEN AdministrativeManuals
    ELSE OtherResources

\* categorize_section without .lower(): the keywords are matched case-sensitively.
categorize_section_case_sensitive(link_text, link_url, nearby_text) ==
    Let(link_text \o <<" ">> \o link_url \o <<" ">> \o nearby_text,
        LAMBDA text : first_match(text))

\* text = f"{link_text} {link_url} {nearby_text}".lower(), then the rules.
categorize_section(link_text, link_url, nearby_text) ==
    Let(lower(link_text \o <<" ">> \o link_url \o <<" ">> \o nearby_text),
        LAMBDA text : first_match(text))

\* ------------------------------------------------------------------------
\* urllib.parse.urlparse, urljoin and os.path.basename, for the URLs of the
\* model: ASCII, without white space and without IPv6 hosts
\* ------------------------------------------------------------------------

\* s.split(sep, 1): the part before the first sep, and the part after it
\* (empty when there is no sep).
before(s, sep) ==
    Let(find_from(s, {sep}, 1), LAMBDA k :
        IF k = 0 THEN s ELSE SubSeq(s, 1, k - 1))

after(s, sep) ==
    Let(find_from(s, {sep}, 1), LAMBDA k :
        IF k = 0 THEN <<>> ELSE SubSeq(s, k + 1, Len(s)))

\* str.split(sep) for a one-character separator.
RECURSIVE split(_, _)
split(s, sep) ==
    IF sep \notin Range(s) THEN <<s>>
    ELSE Let(after(s, sep), LAMBDA rest : <<before(s, sep)>> \o split(rest, sep))

\* sep.join(parts)
RECURSIVE join(_, _)
join(parts, sep) ==
    IF parts = <<>> THEN <<>>
    ELSE IF Len(parts) = 1 THEN parts[1]
    ELSE Let(Tail(parts), LAMBDA rest : parts[1] \o <<sep>> \o join(rest, sep))

SchemeChars ==
    Alnum \cup {"+", "-", "."}

SchemeHttp ==
    <<"h","t","t","p">>

SchemeHttps ==
    <<"h","t","t","p","s">>

SchemeFtp ==
    <<"f","t","p">>

SchemeFile ==
    <<"f","i","l","e">>

\* The schemes of urllib's uses_relative, uses_netloc and uses_params lists
\* that the model's URLs can carry ('' is in all three).
uses_relative ==
    {<<>>, SchemeHttp, SchemeHttps, SchemeFtp, SchemeFile}

uses_netloc ==
    {<<>>, SchemeHttp, SchemeHttps, SchemeFtp, SchemeFile}

uses_params ==
    {<<>>, SchemeHttp, SchemeHttps, SchemeFtp}

\* urlsplit's scheme test: the text before the first ':' is a scheme when it
\* is not empty, starts with a letter and holds only scheme characters.
has_scheme(url) ==
    Let(find_from(url, {":"}, 1), LAMBDA k :
        /\ k > 1
        /\ url[1] \in Uppers \cup Lowers
        /\ \A j \in 1..(k - 1) : url[j] \in SchemeChars)

\* The path of _splitparams(url): the text before the first ';' of the last
\* path segment, and the params after it.
_splitparams(url) ==
    Let(rfind(url, "/"), LAMBDA slash :
    Let(find_from(url, {";"}, IF slash > 0 THEN slash ELSE 1), LAMBDA k :
        IF k = 0 THEN <<url, <<>>>>
        ELSE <<SubSeq(url, 1, k - 1), SubSeq(url, k + 1, Len(url))>>))

\* urlsplit, after the scheme: the netloc and what follows it.
split_netloc(rest) ==
    IF ~startswith(rest, <<"/", "/">>) THEN <<<<>>, rest>>
    ELSE Let(find_from(rest, {"/", "?", "#"}, 3), LAMBDA cut :
             IF cut = 0 THEN <<SubSeq(rest, 3, Len(rest)), <<>>>>
             ELSE <<SubSeq(rest, 3, cut - 1), SubSeq(rest, cut, Len(rest))>>)

\* urlparse, after the netloc: the path, params, query and fragment.
parse_tail(scheme, netloc, rest) ==
    Let(before(rest, "#"), LAMBDA nofragment :
    Let(before(nofragment, "?"), LAMBDA path :
    Let(IF scheme \in uses_params /\ ";" \in Range(path)
        THEN _splitparams(path) ELSE <<path, <<>>>>, LAMBDA sp :
        [scheme |-> scheme, netloc |-> netloc, path |-> sp[1],
         params |-> sp[2], query |-> after(nofragment, "?"),
         fragment |-> after(rest, "#")])))

\* urlparse(url, scheme=default): the six components.
urlparse(url, default) ==
    Let(has_scheme(url), LAMBDA found :
    Let(IF found THEN lower(before(url, ":")) ELSE default, LAMBDA scheme :
    Let(split_netloc(IF found THEN after(url, ":") ELSE url), LAMBDA loc :
        parse_tail(scheme, loc[1], loc[2]))))

\* urlunsplit: the netloc is written when there is one, or when the scheme
\* takes one and the path does not start with '//'.
with_netloc(scheme, netloc, path) ==
    IF \/ netloc # <<>>
       \/ (/\ scheme # <<>>
           /\ scheme \in uses_netloc
           /\ ~startswith(path, <<"/", "/">>))
    THEN <<"/", "/">> \o netloc
             \o (IF path # <<>> /\ path[1] # "/" THEN <<"/">> ELSE <<>>)
             \o path
    ELSE path

urlunparse(p) ==
    Let(IF p.params # <<>> THEN p.path \o <<";">> \o p.params ELSE p.path,
        LAMBDA path :
            (IF p.scheme # <<>> THEN p.scheme \o <<":">> ELSE <<>>)
                \o with_netloc(p.scheme, p.netloc, path)
                \o (IF p.query # <<>> THEN <<"?">> \o p.query ELSE <<>>)
                \o (IF p.fragment # <<>> THEN <<"#">> \o p.fragment ELSE <<>>))

\* urljoin's loop over the segments: '..' pops, '.' is skipped.
RECURSIVE resolve_segments(_, _)
resolve_segments(segments, resolved) ==
    IF segments = <<>> THEN resolved
    ELSE Let(Tail(segments), LAMBDA rest :
         Let(IF segments[1] = <<".", ".">>
             THEN (IF resolved = <<>> THEN resolved
                   ELSE SubSeq(resolved, 1, Len(resolved) - 1))
             ELSE IF segments[1] = <<".">> THEN resolved
             ELSE Append(resolved, segments[1]), LAMBDA acc :
             resolve_segments(rest, acc)))

\* segments[1:-1] = filter(None, segments[1:-1])
drop_empty_inner(segments) ==
    IF Len(segments) <= 2 THEN segments
    ELSE <<segments[1]>>
             \o SelectSeq(SubSeq(segments, 2, Len(segments) - 1),
                          LAMBDA seg : seg # <<>>)
             \o <<segments[Len(segments)]>>

\* base_parts: the segments of the base path without its last segment,
\* unless that is empty.
base_parts_of(bpath) ==
    Let(split(bpath, "/"), LAMBDA parts :
        IF parts[Len(parts)] # <<>> THEN SubSeq(parts, 1, Len(parts) - 1)
        ELSE parts)

\* The path urljoin resolves for a relative reference with a path.
resolved_path(bpath, path) ==
    Let(IF path # <<>> /\ path[1] = "/" THEN split(path, "/")
        ELSE Let(base_parts_of(bpath) \o split(path, "/"),
                 LAMBDA merged : drop_empty_inner(merged)),
        LAMBDA segments :
    Let(resolve_segments(segments, <<>>), LAMBDA resolved :
    Let(join(IF segments[Len(segments)] \in {<<".">>, <<".", ".">>}
             THEN Append(resolved, <<>>) ELSE resolved, "/"), LAMBDA joined :
        IF joined = <<>> THEN <<"/">> ELSE joined)))

\* urljoin, once both URLs are parsed.
join_parsed(url, b, u) ==
    IF u.scheme # b.scheme \/ u.scheme \notin uses_relative THEN url
    ELSE IF u.scheme \in uses_netloc /\ u.netloc # <<>> THEN urlunparse(u)
    ELSE Let(IF u.scheme \in uses_netloc THEN b.netloc ELSE u.netloc,
             LAMBDA netloc :
        IF u.path = <<>> /\ u.params = <<>>
        THEN urlunparse([scheme |-> u.scheme, netloc |-> netloc,
                         path |-> b.path, params |-> b.params,
                         query |-> IF u.query = <<>> THEN b.query ELSE u.query,
                         fragment |-> u.fragment])
        ELSE Let(resolved_path(b.path, u.path), LAMBDA path :
                 urlunparse([scheme |-> u.scheme, netloc |-> netloc,
                             path |-> path, params |-> u.params,
                             query |-> u.query, fragment |-> u.fragment])))

urljoin(base, url) ==
    IF base = <<>> THEN url
    ELSE IF url = <<>> THEN base
    ELSE Let(urlparse(base, <<>>), LAMBDA b :
         Let(urlparse(url, b.scheme), LAMBDA u :
             join_parsed(url, b, u)))

\* os.path.basename: the text after the last '/'.
basename(path) ==
    SubSeq(path, rfind(path, "/") + 1, Len(path))

\* ------------------------------------------------------------------------
\* discover_pdf_links
\* ------------------------------------------------------------------------

\* An anchor as the HTML parser hands it to discover_pdf_links: whether it
\* has an href and its value, its stripped text, the stripped text of its
\* parent, the parent's previous and next sibling as strings (empty: none),
\* and the text of the nearest preceding heading (empty: none found).
Anchor(has_href, href, text, parent_text, prev_sibling, next_sibling, heading) ==
    [has_href |-> has_href, href |-> href, text |-> text,
     parent_text |-> parent_text, prev_sibling |-> prev_sibling,
     next_sibling |-> next_sibling, heading |-> heading]

\* is_pdf_anchor with the endswith test only.
is_pdf_anchor_endswith_only(a) ==
    /\ a.has_href
    /\ endswith(a.href, <<".","p","d","f">>)

\* href.endswith('.pdf') or '.pdf' in href, for an <a href=...>
is_pdf_anchor(a) ==
    /\ a.has_href
    /\ (endswith(a.href, <<".","p","d","f">>) \/ Contains(a.href, <<".","p","d","f">>))

\* The dict appended to pdf_links for one candidate anchor.
link_of(url, a) ==
    [url |-> urljoin(url, a.href),
     text |-> IF a.text # <<>> THEN a.text ELSE <<"P","D","F"," ","D","o","c","u","m","e","n","t">>,
     nearby_text |-> a.parent_text
         \o (IF a.prev_sibling # <<>> THEN <<" ">> \o a.prev_sibling ELSE <<>>)
         \o (IF a.next_sibling # <<>> THEN <<" ">> \o a.next_sibling ELSE <<>>),
     section_heading |-> a.heading]

\* The loop over soup.find_all('a', href=True), in document order.
candidate_links(url, anchors) ==
    Let(SelectSeq(anchors, is_pdf_anchor), LAMBDA found :
        [k \in 1..Len(found) |-> link_of(url, found[k])])

\* Remove duplicates based on URL: the first link of each URL is kept.
RECURSIVE unique_links(_, _)
\* unique_links without the seen_urls test: every candidate is kept.
unique_links_keeping_all(links, seen_urls) ==
    links

unique_links(links, seen_urls) ==
    IF links = <<>> THEN <<>>
    ELSE Let(Tail(links), LAMBDA rest :
         Let(seen_urls \cup {links[1].url}, LAMBDA seen :
             IF links[1].url \notin seen_urls
             THEN <<links[1]>> \o unique_links(rest, seen)
             ELSE unique_links(rest, seen_urls)))

\* discover_pdf_links on a page that was fetched and parsed into anchors.
discover_pdf_links(url, anchors) ==
    Let(candidate_links(url, anchors), LAMBDA candidates :
        unique_links(candidates, {}))

\* ------------------------------------------------------------------------
\* download_pdf, upload_to_s3
\* ------------------------------------------------------------------------

\* The response of session.get for a PDF: its body and its headers' content
\* type (has_content_type FALSE: the header is missing and .get gives '').
Payload(content, has_content_type, content_type) ==
    [content |-> content, has_content_type |-> has_content_type,
     content_type |-> content_type]

\* response.headers.get('content-type', '').lower()
declared_content_type(resp) ==
    IF resp.has_content_type THEN lower(resp.content_type) ELSE <<>>

\* is_valid_pdf with 'or' for 'and': the signature and the content type are
\* both required.
is_valid_pdf_requiring_both(content, content_type) ==
    ~(~startswith(content, <<"%","P","D","F">>) \/ ~Contains(content_type, <<"p","d","f">>))

\* is_valid_pdf with the second 'not' lost: content without the signature is
\* rejected only when its content type mentions pdf.
is_valid_pdf_negation_lost(content, content_type) ==
    ~(~startswith(content, <<"%","P","D","F">>) /\ Contains(content_type, <<"p","d","f">>))

\* not (not content.startswith(b'%PDF') and 'pdf' not in content_type)
is_valid_pdf(content, content_type) ==
    ~(~startswith(content, <<"%","P","D","F">>) /\ ~Contains(content_type, <<"p","d","f">>))

\* Verify it's a PDF: the (content, content_type) returned for a response
\* that arrived with a 2xx status, or the ValueError raised.
verify_pdf(resp) ==
    Let(declared_content_type(resp), LAMBDA content_type :
        IF is_valid_pdf(resp.content, content_type)
        THEN [ok |-> TRUE, content |-> resp.content, content_type |-> content_type]
        ELSE [ok |-> FALSE,
              error |-> <<"I","n","v","a","l","i","d"," ","f","i","l","e"," ","t","y","p","e","."," ","E","x","p","e","c","t","e","d"," ","P","D","F",","," ","g","o","t",":"," ">> \o content_type])

\* download_pdf, given what session.get and raise_for_status did (fetched):
\* their exception is raised again, a response is verified.
download_pdf(fetched) ==
    IF fetched.ok THEN verify_pdf(fetched.resp)
    ELSE [ok |-> FALSE, error |-> fetched.error]

\* key = f"ncdhhs-pdfs/{sanitized_section}/{sanitized_name}"
s3_key(filename, section) ==
    Let(sanitize_filename(filename), LAMBDA sanitized_name :
    Let(sanitize_folder_name(section), LAMBDA sanitized_section :
        <<"n","c","d","h","h","s","-","p","d","f","s","/">> \o sanitized_section \o <<"/">> \o sanitized_name))

\* What put_object stores under the key (the two timestamps of the metadata
\* are left out: nothing in the program reads them back).
s3_object(content, filename, section) ==
    [Body |-> content, ContentType |-> <<"a","p","p","l","i","c","a","t","i","o","n","/","p","d","f">>,
     original_name |-> filename, source |-> <<"n","c","d","h","h","s","-","p","o","l","i","c","i","e","s">>,
     section |-> section]

\* put_object that never overwrites: an object whose key is taken is stored
\* under a fresh key.
put_object_never_overwriting(bucket, key, object) ==
    [k \in DOMAIN bucket \cup {IF key \in DOMAIN bucket THEN key \o <<".","1">> ELSE key}
        |-> IF k \in DOMAIN bucket THEN bucket[k] ELSE object]

\* The bucket after put_object: the object replaces any object of that key.
put_object(bucket, key, object) ==
    [k \in DOMAIN bucket \cup {key} |-> IF k = key THEN object ELSE bucket[k]]

\* ------------------------------------------------------------------------
\* process_pdfs: the per-link computations
\* ------------------------------------------------------------------------

\* filename_of without the fallback: always the last path segment.
filename_of_from_path_only(pdf_link) ==
    basename(urlparse(pdf_link.url, <<>>).path)

\* Generate filename from URL.
filename_of(pdf_link) ==
    Let(urlparse(pdf_link.url, <<>>), LAMBDA parsed_url :
    Let(basename(parsed_url.path), LAMBDA original_filename :
        IF original_filename = <<>> \/ ~endswith(original_filename, <<".","p","d","f">>)
        THEN sanitize_filename(IF pdf_link.text # <<>> THEN pdf_link.text
                               ELSE <<"d","o","c","u","m","e","n","t">>) \o <<".","p","d","f">>
        ELSE original_filename))

\* Categorize the PDF.
section_of(pdf_link) ==
    categorize_section(pdf_link.text, pdf_link.url,
                       pdf_link.nearby_text \o <<" ">> \o pdf_link.section_heading)

\* count_section without the running count: a counted category stays at 1.
count_section_without_get(counts, section) ==
    [s \in DOMAIN counts \cup {section} |->
        IF s = section THEN 1 ELSE counts[s]]

\* section_counts[section] = section_counts.get(section, 0) + 1
count_section(counts, section) ==
    [s \in DOMAIN counts \cup {section} |->
        IF s = section
        THEN (IF s \in DOMAIN counts THEN counts[s] ELSE 0) + 1
        ELSE counts[s]]

\* The entry appended to results.
result_entry(pdf_link, filename, section, key, content, content_type) ==
    [original_url |-> pdf_link.url, filename |-> filename,
     link_text |-> pdf_link.text, section |-> section, s3_key |-> key,
     size |-> Len(content), content_type |-> content_type]

\* The entry appended to errors.
error_entry(pdf_link, message) ==
    [url |-> pdf_link.url, link_text |-> pdf_link.text, error |-> message]

\* summary_of with the total counted from the results instead of the links.
summary_of_total_from_results(links, res, errs, counts) ==
    [total |-> Len(res), successful |-> Len(res), failed |-> Len(errs),
     sections |-> counts]

\* The three counts of the summary.
summary_of(links, res, errs, counts) ==
    [total |-> Len(links), successful |-> Len(res), failed |-> Len(errs),
     sections |-> counts]

\* final_response reporting success only when a link was stored.
final_response_success_if_stored(url, links, res, errs, counts) ==
    [success |-> res # <<>>, summary |-> summary_of(links, res, errs, counts),
     results |-> res, errors |-> errs, processed_from |-> url]

\* The dict returned after the loop ('errors': errors if errors else None;
\* None is the empty sequence here, which is the only case it stands for).
final_response(url, links, res, errs, counts) ==
    [success |-> TRUE, summary |-> summary_of(links, res, errs, counts),
     results |-> res, errors |-> errs, processed_from |-> url]

\* no_links_response treating an empty page as a failure.
no_links_response_as_failure ==
    [success |-> FALSE, error |-> <<"N","o"," ","P","D","F"," ","l","i","n","k","s"," ","f","o","u","n","d"," ","o","n"," ","t","h","e"," ","s","p","e","c","i","f","i","e","d"," ","p","a","g","e">>]

\* The dict returned when discovery finds no link.
no_links_response ==
    [success |-> TRUE,
     summary |-> [total |-> 0, successful |-> 0, failed |-> 0,
                  sections |-> <<>>],
     results |-> <<>>,
     message |-> <<"N","o"," ","P","D","F"," ","l","i","n","k","s"," ","f","o","u","n","d"," ","o","n"," ","t","h","e"," ","s","p","e","c","i","f","i","e","d"," ","p","a","g","e">>]

\* failure_response swallowing the exception: the empty success is returned.
failure_response_swallowed(message) ==
    no_links_response

\* The dict returned by the outer except.
failure_response(message) ==
    [success |-> FALSE, error |-> message]

\* ------------------------------------------------------------------------
\* The inputs of the model: what the network and the store answer
\* ------------------------------------------------------------------------

\* The largest number of anchors on a fetched page.
MaxAnchors == 2

\* The number of times process_pdfs is invoked (the second and later
\* invocations see the same page and the same per-link answers as the first).
MaxRuns == 2

SeedUrls ==
    {<<"h","t","t","p","s",":","/","/","e","x","a","m","p","l","e",".","c","o","m","/","d","o","c","s","/","i","n","d","e","x",".","h","t","m","l">>}

\* The anchors a page is made of: a relative and an absolute link to the same
\* PDF, a PDF whose category comes from its heading, a PDF named only in the
\* query string under an anchor without text, and a link that is no PDF.
AnchorUniverse ==
    {Anchor(TRUE, <<"c","p","s","-","i","n","t","a","k","e",".","p","d","f">>, <<"C","P","S"," ","I","n","t","a","k","e">>, <<"C","P","S"," ","I","n","t","a","k","e">>,
            <<>>, <<>>, <<>>),
     Anchor(TRUE, <<"h","t","t","p","s",":","/","/","e","x","a","m","p","l","e",".","c","o","m","/","d","o","c","s","/","c","p","s","-","i","n","t","a","k","e",".","p","d","f">>, <<"I","n","t","a","k","e"," ","(","c","o","p","y",")">>,
            <<"I","n","t","a","k","e"," ","(","c","o","p","y",")">>, <<"s","e","e">>, <<>>, <<"F","o","r","m","s">>),
     Anchor(TRUE, <<"/","f","o","r","m","s","/","R","e","p","o","r","t",".","p","d","f">>, <<"A","n","n","u","a","l"," ","R","e","p","o","r","t">>, <<"A","n","n","u","a","l"," ","R","e","p","o","r","t">>,
            <<>>, <<"2","0","2","4">>, <<"F","u","n","d","i","n","g">>),
     Anchor(TRUE, <<"v","i","e","w","?","f","i","l","e","=","g","u","i","d","e",".","p","d","f">>, <<>>, <<>>, <<>>, <<>>, <<>>),
     Anchor(TRUE, <<"n","o","t","e","s",".","t","x","t">>, <<"N","o","t","e","s">>, <<"N","o","t","e","s">>, <<>>, <<>>, <<>>)}

\* The sequences over S of length at most n.
SeqsUpTo(S, n) ==
    UNION {[1..k -> S] : k \in 0..n}

\* The pages discovery can be answered with.
Pages ==
    SeqsUpTo(AnchorUniverse, MaxAnchors)

\* What session.get(url) and raise_for_status() do in discover_pdf_links:
\* raise (a transport error or a non-2xx status), or hand over a page.
DiscoverOutcomes ==
    {[ok |-> FALSE, error |-> <<"C","o","n","n","e","c","t","i","o","n"," ","t","i","m","e","d"," ","o","u","t">>],
     [ok |-> FALSE, error |-> <<"4","0","4"," ","C","l","i","e","n","t"," ","E","r","r","o","r">>]}
        \cup {[ok |-> TRUE, anchors |-> p] : p \in Pages}

\* What session.get(url) and raise_for_status() do in download_pdf: raise,
\* or hand over a response.
FetchOutcomes ==
    {[ok |-> FALSE, error |-> <<"R","e","a","d"," ","t","i","m","e","d"," ","o","u","t">>],
     [ok |-> TRUE, resp |-> Payload(<<"%","P","D","F","-","1",".","4">>, TRUE, <<"a","p","p","l","i","c","a","t","i","o","n","/","p","d","f">>)],
     [ok |-> TRUE, resp |-> Payload(<<"<","h","t","m","l",">">>, TRUE, <<"A","p","p","l","i","c","a","t","i","o","n","/","P","D","F">>)],
     [ok |-> TRUE, resp |-> Payload(<<"<","h","t","m","l",">">>, TRUE, <<"t","e","x","t","/","h","t","m","l">>)]}

\* What s3_client.put_object does: return, or raise.
PutOutcomes ==
    {[ok |-> TRUE], [ok |-> FALSE, error |-> <<"A","c","c","e","s","s"," ","D","e","n","i","e","d">>]}

\* ------------------------------------------------------------------------
\* process_pdfs as a state machine
\* ------------------------------------------------------------------------

VARIABLES
    pc,             \* where process_pdfs is: idle, discovering, item,
                    \* downloading, uploading, returned
    run,            \* the number of invocations so far
    url,            \* the argument of the invocation
    pdf_links,      \* the links discovery returned
    i,              \* the loop's position in pdf_links (from 1)
    item,           \* the loop body's locals: pdf_link, original_filename,
                    \* section, content, content_type
    results,
    errors,
    section_counts,
    response,       \* what process_pdfs returned
    bucket,         \* the S3 bucket: key -> object
    trace,          \* the steps of this invocation, in order: discovery, and
                    \* per link its categorization, its download with what
                    \* was fetched, and its put_object with the key
    script,         \* the answers the first invocation got, replayed by the
                    \* later ones, and the bucket's keys when it returned
    arg,            \* the argument of a helper called on its own
    ret             \* and what it returned

vars ==
    <<pc, run, url, pdf_links, i, item, results, errors, section_counts,
      response, bucket, trace, script, arg, ret>>

NoItem ==
    [pdf_link |-> <<>>, original_filename |-> <<>>, section |-> <<>>,
     content |-> <<>>, content_type |-> <<>>]

NoResponse ==
    [pending |-> TRUE]

NoScript ==
    [discover |-> <<>>, fetch |-> <<>>, put |-> <<>>, keys |-> {}]

\* process_pdfs has not been called.
Fresh ==
    /\ run = 0
    /\ url = <<>>
    /\ pdf_links = <<>>
    /\ i = 0
    /\ item = NoItem
    /\ results = <<>>
    /\ errors = <<>>
    /\ section_counts = <<>>
    /\ response = NoResponse
    /\ bucket = <<>>
    /\ trace = <<>>
    /\ script = NoScript

Init ==
    /\ pc = "idle"
    /\ Fresh
    /\ arg = <<>>
    /\ ret = <<>>

\* The answers an invocation can get: any on the first invocation, the
\* recorded ones afterwards.
DiscoverChoices ==
    IF run <= 1 THEN DiscoverOutcomes ELSE {script.discover[1]}

FetchChoices ==
    IF run <= 1 THEN FetchOutcomes
    ELSE {script.fetch[k] : k \in DOMAIN script.fetch \cap {i}}

PutChoices ==
    IF run <= 1 THEN PutOutcomes
    ELSE {script.put[k] : k \in DOMAIN script.put \cap {i}}

\* script with the answer for link i recorded (first invocation only).
Recorded(field, answer) ==
    IF run = 1
    THEN [script EXCEPT ![field] =
             [k \in DOMAIN @ \cup {i} |-> IF k = i THEN answer ELSE @[k]]]
    ELSE script

\* script with the bucket's keys recorded (first invocation only).
WithKeys(s, keys) ==
    IF run = 1 THEN [s EXCEPT !.keys = keys] ELSE s

\* link_at walking the links from the last to the first.
link_at_reversed(links, k) ==
    links[Len(links) + 1 - k]

\* for i, pdf_link in enumerate(pdf_links): the link of position k, and the
\* position after it.
link_at(links, k) ==
    links[k]

\* next_index staying on the link: the loop tries the same link again.
next_index_retrying(k) ==
    k

next_index(k) ==
    k + 1

\* process_pdfs(url) is called: the locals are fresh.
Invoke(u) ==
    /\ pc \in {"idle", "returned"}
    /\ run < MaxRuns
    /\ run > 0 => u = url
    /\ pc' = "discovering"
    /\ run' = run + 1
    /\ url' = u
    /\ pdf_links' = <<>>
    /\ i' = 0
    /\ item' = NoItem
    /\ results' = <<>>
    /\ errors' = <<>>
    /\ section_counts' = <<>>
    /\ response' = NoResponse
    /\ trace' = <<>>
    /\ UNCHANGED <<bucket, script, arg, ret>>

\* pdf_links = self.discover_pdf_links(url) raises: the outer except returns
\* the failure response.
DiscoverFails(d) ==
    /\ pc = "discovering"
    /\ ~d.ok
    /\ trace' = Append(trace, [op |-> "discover", index |-> 0, ok |-> FALSE])
    /\ response' = failure_response(d.error)
    /\ pc' = "returned"
    /\ script' = WithKeys([script EXCEPT !.discover = <<d>>], DOMAIN bucket)
    /\ UNCHANGED <<run, url, pdf_links, i, item, results, errors,
                   section_counts, bucket, arg, ret>>

\* Discovery returns: with no link process_pdfs returns at once, otherwise the
\* loop starts at the first link.
Discover(d) ==
    /\ pc = "discovering"
    /\ d.ok
    /\ \E links \in {discover_pdf_links(url, d.anchors)} :
           /\ pdf_links' = links
           /\ IF links = <<>>
              THEN /\ response' = no_links_response
                   /\ pc' = "returned"
                   /\ i' = i
              ELSE /\ response' = response
                   /\ pc' = "item"
                   /\ i' = 1
    /\ trace' = Append(trace, [op |-> "discover", index |-> 0, ok |-> TRUE])
    /\ script' = WithKeys([script EXCEPT !.discover = <<d>>], DOMAIN bucket)
    /\ UNCHANGED <<run, url, item, results, errors, section_counts, bucket,
                   arg, ret>>

\* The head of the loop body: the filename, the category and its count.
Categorize ==
    /\ pc = "item"
    /\ i <= Len(pdf_links)
    /\ \E pdf_link \in {link_at(pdf_links, i)} :
       \E section \in {section_of(pdf_link)} :
           /\ item' = [NoItem EXCEPT
                          !.pdf_link = pdf_link,
                          !.original_filename = filename_of(pdf_link),
                          !.section = section]
           /\ section_counts' = count_section(section_counts, section)
    /\ trace' = Append(trace, [op |-> "categorize", index |-> i, ok |-> TRUE])
    /\ pc' = "downloading"
    /\ UNCHANGED <<run, url, pdf_links, i, results, errors, response, bucket,
                   script, arg, ret>>

\* DownloadFails without the inner try/except: the exception reaches the
\* outer except and the run ends with the failure response.
DownloadFails_aborting(f) ==
    /\ pc = "downloading"
    /\ \E r \in {download_pdf(f)} :
           /\ ~r.ok
           /\ response' = failure_response(r.error)
    /\ trace' = Append(trace, [op |-> "download", index |-> i, ok |-> FALSE,
                               fetched |-> f])
    /\ pc' = "returned"
    /\ script' = WithKeys(Recorded("fetch", f), DOMAIN bucket)
    /\ UNCHANGED <<run, url, pdf_links, i, item, results, errors,
                   section_counts, bucket, arg, ret>>

\* download_pdf raises (the fetch failed, or the content is no PDF): the
\* inner except records the error and the loop goes on.
DownloadFails(f) ==
    /\ pc = "downloading"
    /\ \E r \in {download_pdf(f)} :
           /\ ~r.ok
           /\ errors' = Append(errors, error_entry(item.pdf_link, r.error))
    /\ trace' = Append(trace, [op |-> "download", index |-> i, ok |-> FALSE,
                               fetched |-> f])
    /\ i' = next_index(i)
    /\ pc' = "item"
    /\ script' = Recorded("fetch", f)
    /\ UNCHANGED <<run, url, pdf_links, item, results, section_counts,
                   response, bucket, arg, ret>>

\* download_pdf returns the content and its content type.
Download(f) ==
    /\ pc = "downloading"
    /\ \E r \in {download_pdf(f)} :
           /\ r.ok
           /\ item' = [item EXCEPT !.content = r.content,
                                   !.content_type = r.content_type]
    /\ trace' = Append(trace, [op |-> "download", index |-> i, ok |-> TRUE,
                               fetched |-> f])
    /\ pc' = "uploading"
    /\ script' = Recorded("fetch", f)
    /\ UNCHANGED <<run, url, pdf_links, i, results, errors, section_counts,
                   response, bucket, arg, ret>>

\* UploadFails raising after the write: the object is in the bucket although
\* the link is recorded as an error.
UploadFails_after_writing(p) ==
    /\ pc = "uploading"
    /\ ~p.ok
    /\ \E key \in {s3_key(item.original_filename, item.section)} :
           /\ bucket' = put_object(bucket, key,
                            s3_object(item.content, item.original_filename,
                                      item.section))
           /\ trace' = Append(trace, [op |-> "put_object", index |-> i,
                                      ok |-> FALSE, key |-> key])
    /\ errors' = Append(errors, error_entry(item.pdf_link, p.error))
    /\ i' = next_index(i)
    /\ pc' = "item"
    /\ script' = Recorded("put", p)
    /\ UNCHANGED <<run, url, pdf_links, item, results, section_counts,
                   response, arg, ret>>

\* upload_to_s3 raises: the inner except records the error.
UploadFails(p) ==
    /\ pc = "uploading"
    /\ ~p.ok
    /\ \E key \in {s3_key(item.original_filename, item.section)} :
           trace' = Append(trace, [op |-> "put_object", index |-> i,
                                   ok |-> FALSE, key |-> key])
    /\ errors' = Append(errors, error_entry(item.pdf_link, p.error))
    /\ i' = next_index(i)
    /\ pc' = "item"
    /\ script' = Recorded("put", p)
    /\ UNCHANGED <<run, url, pdf_links, item, results, section_counts,
                   response, bucket, arg, ret>>

\* upload_to_s3 returns the key: the result is recorded.
Upload(p) ==
    /\ pc = "uploading"
    /\ p.ok
    /\ \E key \in {s3_key(item.original_filename, item.section)} :
           /\ bucket' = put_object(bucket, key,
                            s3_object(item.content, item.original_filename,
                                      item.section))
           /\ trace' = Append(trace, [op |-> "put_object", index |-> i,
                                      ok |-> TRUE, key |-> key])
           /\ results' = Append(results,
                            result_entry(item.pdf_link, item.original_filename,
                                         item.section, key, item.content,
                                         item.content_type))
    /\ i' = next_index(i)
    /\ pc' = "item"
    /\ script' = Recorded("put", p)
    /\ UNCHANGED <<run, url, pdf_links, item, errors, section_counts, response,
                   arg, ret>>

\* The loop is over: the summary is returned.
Finish ==
    /\ pc = "item"
    /\ i > Len(pdf_links)
    /\ response' = final_response(url, pdf_links, results, errors, section_counts)
    /\ pc' = "returned"
    /\ script' = WithKeys(script, DOMAIN bucket)
    /\ UNCHANGED <<run, url, pdf_links, i, item, results, errors,
                   section_counts, bucket, trace, arg, ret>>

Next ==
    \/ \E u \in SeedUrls : Invoke(u)
    \/ \E d \in DiscoverChoices : DiscoverFails(d)
    \/ \E d \in DiscoverChoices : Discover(d)
    \/ Categorize
    \/ \E f \in FetchChoices : DownloadFails(f)
    \/ \E f \in FetchChoices : Download(f)
    \/ \E p \in PutChoices : UploadFails(p)
    \/ \E p \in PutChoices : Upload(p)
    \/ Finish

Spec ==
    Init /\ [][Next]_vars

\* ------------------------------------------------------------------------
\* download_pdf called on its own, on every fetched answer of a bounded set
\* ------------------------------------------------------------------------

\* The longest response body.
MaxContentLen == 5

ContentChars ==
    {"%", "P", "D", "F", "x"}

\* The content-type headers: missing, empty, PDF types in lower, upper and
\* mixed case, and other types.
ContentTypes ==
    {<<FALSE, <<>>>>, <<TRUE, <<>>>>, <<TRUE, <<"a","p","p","l","i","c","a","t","i","o","n","/","p","d","f">>>>,
     <<TRUE, <<"A","p","p","l","i","c","a","t","i","o","n","/","P","D","F">>>>, <<TRUE, <<"a","p","p","l","i","c","a","t","i","o","n","/","x","-","p","d","f",";"," ","q","=","1">>>>,
     <<TRUE, <<"t","e","x","t","/","h","t","m","l">>>>, <<TRUE, <<"T","e","x","t","/","H","T","M","L",";"," ","c","h","a","r","s","e","t","=","U","T","F","-","8">>>>}

DownloadInputs ==
    {[ok |-> FALSE, error |-> <<"R","e","a","d"," ","t","i","m","e","d"," ","o","u","t">>]}
        \cup {[ok |-> TRUE, resp |-> Payload(c, t[1], t[2])] :
                 c \in SeqsUpTo(ContentChars, MaxContentLen), t \in ContentTypes}

InitDownload ==
    /\ pc = "call"
    /\ Fresh
    /\ arg \in DownloadInputs
    /\ ret = <<>>

CallDownload ==
    /\ pc = "call"
    /\ ret' = download_pdf(arg)
    /\ pc' = "done"
    /\ UNCHANGED <<run, url, pdf_links, i, item, results, errors,
                   section_counts, response, bucket, trace, script, arg>>

NextDownload ==
    CallDownload

SpecDownload ==
    InitDownload /\ [][NextDownload]_vars

\* ------------------------------------------------------------------------
\* categorize_section called on its own
\* ------------------------------------------------------------------------

LinkTexts ==
    {<<"C","P","S"," ","A","s","s","e","s","s","m","e","n","t">>, <<"U","n","k","n","o","w","n"," ","D","o","c","u","m","e","n","t">>, <<"S","a","f","e">>, <<"C","h","i","l","d"," ","W","e","l","f","a","r","e">>,
     <<"I","C","P","C"," ","F","o","r","m","s">>, <<"A","d","m","i","n","i","s","t","r","a","t","i","v","e">>, <<"P","r","a","c","t","i","c","e"," ","M","a","n","u","a","l">>, <<>>}

LinkUrls ==
    {<<"u","n","k","n","o","w","n",".","p","d","f">>, <<"c","p","s",".","p","d","f">>, <<"s","l","e","e","p"," ","t","i","p","s",".","p","d","f">>, <<"m","a","n","u","a","l",".","p","d","f">>,
     <<"h","t","t","p","s",":","/","/","e","x","a","m","p","l","e",".","c","o","m","/","d","o","c","s","/","S","D","M","-","T","o","o","l",".","p","d","f">>, <<"D","i","s","a","s","t","e","r",".","P","D","F">>}

NearbyTexts ==
    {<<"r","a","n","d","o","m"," ","t","e","x","t">>, <<"c","h","i","l","d"," ","w","e","l","f","a","r","e">>, <<"B","e","s","t","-","P","r","a","c","t","i","c","e">>, <<"S","I","D","S"," ","p","r","e","v","e","n","t","i","o","n">>,
     <<>>}

CategorizeInputs ==
    {[link_text |-> t, link_url |-> u, nearby_text |-> n] :
        t \in LinkTexts, u \in LinkUrls, n \in NearbyTexts}

InitCategorize ==
    /\ pc = "call"
    /\ Fresh
    /\ arg \in CategorizeInputs
    /\ ret = <<>>

CallCategorize ==
    /\ pc = "call"
    /\ ret' = categorize_section(arg.link_text, arg.link_url, arg.nearby_text)
    /\ pc' = "done"
    /\ UNCHANGED <<run, url, pdf_links, i, item, results, errors,
                   section_counts, response, bucket, trace, script, arg>>

NextCategorize ==
    CallCategorize

SpecCategorize ==
    InitCategorize /\ [][NextCategorize]_vars

\* ------------------------------------------------------------------------
\* discover_pdf_links called on its own, on every page of a bounded set
\* ------------------------------------------------------------------------

\* The largest number of anchors on a page given to discover_pdf_links.
MaxPageAnchors == 3

\* A relative and an absolute link to the same PDF, a link with '.pdf' inside
\* its href, a text file, an anchor without href whose text names a PDF, and
\* a link whose extension is in upper case.
DiscoveryAnchors ==
    {Anchor(TRUE, <<"c","p","s","-","i","n","t","a","k","e",".","p","d","f">>, <<"C","P","S"," ","I","n","t","a","k","e">>, <<"C","P","S"," ","I","n","t","a","k","e">>,
            <<>>, <<>>, <<>>),
     Anchor(TRUE, <<"h","t","t","p","s",":","/","/","e","x","a","m","p","l","e",".","c","o","m","/","d","o","c","s","/","c","p","s","-","i","n","t","a","k","e",".","p","d","f">>, <<"I","n","t","a","k","e"," ","(","c","o","p","y",")">>,
            <<"I","n","t","a","k","e"," ","(","c","o","p","y",")">>, <<"s","e","e">>, <<>>, <<"F","o","r","m","s">>),
     Anchor(TRUE, <<"r","e","p","o","r","t",".","p","d","f","?","d","o","w","n","l","o","a","d","=","1">>, <<"R","e","p","o","r","t">>, <<"R","e","p","o","r","t">>,
            <<>>, <<"2","0","2","4">>, <<"F","u","n","d","i","n","g">>),
     Anchor(TRUE, <<"n","o","t","e","s",".","t","x","t">>, <<"N","o","t","e","s">>, <<"N","o","t","e","s">>, <<>>, <<>>, <<>>),
     Anchor(FALSE, <<>>, <<"M","a","n","u","a","l",".","p","d","f">>, <<"M","a","n","u","a","l",".","p","d","f">>, <<>>, <<>>, <<>>),
     Anchor(TRUE, <<"S","c","a","n",".","P","D","F">>, <<"S","c","a","n">>, <<"S","c","a","n">>, <<>>, <<>>, <<>>)}

DiscoverInputs ==
    {[url |-> u, anchors |-> p] :
        u \in SeedUrls, p \in SeqsUpTo(DiscoveryAnchors, MaxPageAnchors)}

InitDiscover ==
    /\ pc = "call"
    /\ Fresh
    /\ arg \in DiscoverInputs
    /\ ret = <<>>

CallDiscover ==
    /\ pc = "call"
    /\ ret' = discover_pdf_links(arg.url, arg.anchors)
    /\ pc' = "done"
    /\ UNCHANGED <<run, url, pdf_links, i, item, results, errors,
                   section_counts, response, bucket, trace, script, arg>>

NextDiscover ==
    CallDiscover

SpecDiscover ==
    InitDiscover /\ [][NextDiscover]_vars

\* ------------------------------------------------------------------------
\* sanitize_filename and sanitize_folder_name called on a name, and again on
\* what they returned
\* ------------------------------------------------------------------------

\* The longest generated name.
MaxNameLen == 4

\* An upper-case and a lower-case letter, two kinds of white space, the
\* hyphen, the underscore, the dot and a special character.
NameChars ==
    {"A", "b", " ", "\t", "-", "_", ".", "@"}

\* The names of the repository's tests.
NameExamples ==
    {<<"t","e","s","t","-","f","i","l","e",".","p","d","f">>, <<"t","e","s","t","@","f","i","l","e","#",".","p","d","f">>, <<"t","e","s","t"," ","f","i","l","e","@","#","$",".","p","d","f">>,
     <<"t","e","s","t","_","_","_","f","i","l","e",".","p","d","f">>, <<"c","h","i","l","d"," ","w","e","l","f","a","r","e">>, <<"c","h","i","l","d","@","w","e","l","f","a","r","e","#">>,
     <<"c","h","i","l","d"," "," "," ","w","e","l","f","a","r","e","-","-","-","m","a","n","u","a","l">>, <<" ","C","h","i","l","d"," ","W","e","l","f","a","r","e"," ","-"," ","M","a","n","u","a","l","s"," ">>}

SanitizeInputs ==
    SeqsUpTo(NameChars, MaxNameLen) \cup NameExamples

sanitized(name) ==
    [filename |-> sanitize_filename(name),
     folder_name |-> sanitize_folder_name(name)]

sanitized_again(once) ==
    [filename |-> sanitize_filename(once.filename),
     folder_name |-> sanitize_folder_name(once.folder_name)]

InitSanitize ==
    /\ pc = "call"
    /\ Fresh
    /\ arg \in SanitizeInputs
    /\ ret = <<>>

CallSanitize ==
    /\ pc = "call"
    /\ ret' = <<sanitized(arg)>>
    /\ pc' = "once"
    /\ UNCHANGED <<run, url, pdf_links, i, item, results, errors,
                   section_counts, response, bucket, trace, script, arg>>

CallSanitizeAgain ==
    /\ pc = "once"
    /\ ret' = Append(ret, sanitized_again(ret[1]))
    /\ pc' = "twice"
    /\ UNCHANGED <<run, url, pdf_links, i, item, results, errors,
                   section_counts, response, bucket, trace, script, arg>>

NextSanitize ==
    \/ CallSanitize
    \/ CallSanitizeAgain

SpecSanitize ==
    InitSanitize /\ [][NextSanitize]_vars

\* ------------------------------------------------------------------------
\* lambda_handler
\* ------------------------------------------------------------------------

\* JSON values as json.loads returns them: None, a str, a number, a list, a
\* dict.
JsonNull ==
    [type |-> "null"]

JsonString(chars) ==
    [type |-> "string", value |-> chars]

JsonNumber(number) ==
    [type |-> "number", value |-> number]

JsonArray(items) ==
    [type |-> "array", items |-> items]

JsonObject(fields) ==
    [type |-> "object", fields |-> fields]

\* A str holding a JSON document: what json.dumps(value) returns and what
\* json.loads turns back into the value.
json_dumps(value) ==
    [type |-> "text", valid |-> TRUE, value |-> value]

\* A str that is no JSON document: json.loads raises with the message.
MalformedText(message) ==
    [type |-> "text", valid |-> FALSE, error |-> message]

\* json.loads(text)
json_loads(text) ==
    IF text.valid THEN [ok |-> TRUE, value |-> text.value]
    ELSE [ok |-> FALSE, error |-> text.error]

\* Parse the event: the body, or the exception raised.
parse_event(event) ==
    IF "body" \in DOMAIN event.fields
    THEN IF event.fields.body.type = "text"
         THEN json_loads(event.fields.body)
         ELSE [ok |-> TRUE, value |-> event.fields.body]
    ELSE [ok |-> TRUE, value |-> event]

\* type(value).__name__
type_name(value) ==
    IF value.type = "null" THEN <<"N","o","n","e","T","y","p","e">>
    ELSE IF value.type = "string" THEN <<"s","t","r">>
    ELSE IF value.type = "number" THEN <<"i","n","t">>
    ELSE IF value.type = "array" THEN <<"l","i","s","t">>
    ELSE <<"d","i","c","t">>

\* body.get('url'): the value, None when the dict has no such key, or the
\* AttributeError of a body that is no dict.
get_url(body) ==
    IF body.type = "object"
    THEN [ok |-> TRUE,
          value |-> IF "url" \in DOMAIN body.fields THEN body.fields.url
                    ELSE JsonNull]
    ELSE [ok |-> FALSE,
          error |-> <<"'">> \o type_name(body)
                        \o <<"'"," ","o","b","j","e","c","t"," ","h","a","s"," ","n","o"," ","a","t","t","r","i","b","u","t","e"," ","'","g","e","t","'">>]

\* truthy testing for None only ('if url is None' for 'if not url').
truthy_unless_none(value) ==
    value.type # "null"

\* bool(value)
truthy(value) ==
    IF value.type = "null" THEN FALSE
    ELSE IF value.type = "string" THEN value.value # <<>>
    ELSE IF value.type = "number" THEN value.value # 0
    ELSE IF value.type = "array" THEN value.items # <<>>
    ELSE DOMAIN value.fields # {}

\* The url lambda_handler reads from the event, or the exception raised.
url_of(event) ==
    Let(parse_event(event), LAMBDA parsed :
        IF parsed.ok THEN get_url(parsed.value) ELSE parsed)

JsonHeaders ==
    [content_type |-> <<"a","p","p","l","i","c","a","t","i","o","n","/","j","s","o","n">>, allow_origin |-> <<"*">>]

\* The three responses of lambda_handler (the timestamp of the last is left
\* out).
bad_request ==
    [statusCode |-> 400, headers |-> JsonHeaders,
     body |-> json_dumps([success |-> FALSE, error |-> <<"U","R","L"," ","i","s"," ","r","e","q","u","i","r","e","d">>])]

ok_response(result) ==
    [statusCode |-> 200, headers |-> JsonHeaders, body |-> json_dumps(result)]

error_response(message) ==
    [statusCode |-> 500, headers |-> JsonHeaders,
     body |-> json_dumps([success |-> FALSE, error |-> message])]

\* The url values of a body: none, None, '', 0, and three urls.
UrlFields ==
    {<<>>}
        \cup {[url |-> v] : v \in {JsonNull, JsonString(<<>>), JsonNumber(0)}}
        \cup {[url |-> JsonString(u)] :
                 u \in SeedUrls \cup {<<"h","t","t","p","s",":","/","/","e","x","a","m","p","l","e",".","c","o","m">>,
                                      <<"h","t","t","p","s",":","/","/","e","x","a","m","p","l","e",".","c","o","m","/","a",".","p","d","f">>}}

\* The events: the fields at the top level, in a dict body, in a str body;
\* and bodies that are None, no JSON, or JSON but no dict.
Events ==
    {JsonObject(f) : f \in UrlFields}
        \cup {JsonObject([body |-> JsonObject(f)]) : f \in UrlFields}
        \cup {JsonObject([body |-> json_dumps(JsonObject(f))]) : f \in UrlFields}
        \cup {JsonObject([body |-> b]) :
                 b \in {JsonNull,
                        MalformedText(<<"E","x","p","e","c","t","i","n","g"," ","v","a","l","u","e",":"," ","l","i","n","e"," ","1"," ","c","o","l","u","m","n"," ","1"," ","(","c","h","a","r"," ","0",")">>),
                        json_dumps(JsonArray(<<>>)), json_dumps(JsonNull),
                        json_dumps(JsonString(<<"h","t","t","p","s",":","/","/","e","x","a","m","p","l","e",".","c","o","m">>))}}

\* What process_pdfs can do when lambda_handler calls it: return one of its
\* responses, or raise (as the tests make it do).
ProcessOutcomes ==
    {[ok |-> TRUE, result |-> r] :
        r \in {no_links_response,
               failure_response(<<"C","o","n","n","e","c","t","i","o","n"," ","t","i","m","e","d"," ","o","u","t">>),
               failure_response(<<"4","0","4"," ","C","l","i","e","n","t"," ","E","r","r","o","r">>),
               [success |-> TRUE,
                summary |-> [total |-> 1, successful |-> 1, failed |-> 0]]}
              \cup {final_response(u, <<>>, <<>>, <<>>, <<>>) : u \in SeedUrls}}
        \cup {[ok |-> FALSE, error |-> e] :
                 e \in {<<"P","r","o","c","e","s","s","i","n","g"," ","f","a","i","l","e","d">>, <<"A","c","c","e","s","s"," ","D","e","n","i","e","d">>,
                        <<"U","n","a","b","l","e"," ","t","o"," ","l","o","c","a","t","e"," ","c","r","e","d","e","n","t","i","a","l","s">>}}

InitHandler ==
    /\ pc = "call"
    /\ Fresh
    /\ arg \in Events
    /\ ret = <<>>

\* lambda_handler returns without calling process_pdfs: the event cannot be
\* parsed (500), or it has no url (400).
HandlerReturnsEarly ==
    /\ pc = "call"
    /\ \E got \in {url_of(arg)} :
           /\ IF got.ok THEN ~truthy(got.value) ELSE TRUE
           /\ ret' = IF got.ok THEN bad_request ELSE error_response(got.error)
    /\ pc' = "done"
    /\ UNCHANGED <<run, url, pdf_links, i, item, results, errors,
                   section_counts, response, bucket, trace, script, arg>>

\* lambda_handler calls processor.process_pdfs(url).
HandlerCallsProcess ==
    /\ pc = "call"
    /\ \E got \in {url_of(arg)} :
           /\ IF got.ok THEN truthy(got.value) ELSE FALSE
           /\ trace' = Append(trace, [op |-> "process_pdfs", url |-> got.value])
    /\ pc' = "processing"
    /\ UNCHANGED <<run, url, pdf_links, i, item, results, errors,
                   section_counts, response, bucket, script, arg, ret>>

\* process_pdfs returns: 200 with the result as the body.
ProcessReturns(o) ==
    /\ pc = "processing"
    /\ o.ok
    /\ ret' = ok_response(o.result)
    /\ trace' = Append(trace, [op |-> "return", outcome |-> o])
    /\ pc' = "done"
    /\ UNCHANGED <<run, url, pdf_links, i, item, results, errors,
                   section_counts, response, bucket, script, arg>>

\* ProcessRaises without the try/except of lambda_handler: the exception
\* leaves the handler.
ProcessRaises_uncaught(o) ==
    /\ pc = "processing"
    /\ ~o.ok
    /\ ret' = [raised |-> o.error]
    /\ trace' = Append(trace, [op |-> "raise", outcome |-> o])
    /\ pc' = "done"
    /\ UNCHANGED <<run, url, pdf_links, i, item, results, errors,
                   section_counts, response, bucket, script, arg>>

\* process_pdfs raises: the except returns 500 with the message.
ProcessRaises(o) ==
    /\ pc = "processing"
    /\ ~o.ok
    /\ ret' = error_response(o.error)
    /\ trace' = Append(trace, [op |-> "raise", outcome |-> o])
    /\ pc' = "done"
    /\ UNCHANGED <<run, url, pdf_links, i, item, results, errors,
                   section_counts, response, bucket, script, arg>>

NextHandler ==
    \/ HandlerReturnsEarly
    \/ HandlerCallsProcess
    \/ \E o \in ProcessOutcomes : ProcessReturns(o)
    \/ \E o \in ProcessOutcomes : ProcessRaises(o)

SpecHandler ==
    InitHandler /\ [][NextHandler]_vars


\* ------------------------------------------------------------------------
\* process_pdfs on pages whose links share a file name and a category
\* ------------------------------------------------------------------------

\* Two PDFs of the same name in different directories, and two PDFs named
\* only in the query string under the same anchor text.
SameNameAnchors ==
    {Anchor(TRUE, <<"/","f","o","r","m","s","/","R","e","p","o","r","t",".","p","d","f">>, <<"A","n","n","u","a","l"," ","R","e","p","o","r","t">>, <<"A","n","n","u","a","l"," ","R","e","p","o","r","t">>,
            <<>>, <<"2","0","2","4">>, <<"F","u","n","d","i","n","g">>),
     Anchor(TRUE, <<"/","a","r","c","h","i","v","e","/","R","e","p","o","r","t",".","p","d","f">>, <<"A","n","n","u","a","l"," ","R","e","p","o","r","t">>, <<"A","n","n","u","a","l"," ","R","e","p","o","r","t">>,
            <<>>, <<"2","0","2","3">>, <<"F","u","n","d","i","n","g">>),
     Anchor(TRUE, <<"v","i","e","w","?","f","i","l","e","=","a",".","p","d","f">>, <<"G","u","i","d","e">>, <<"G","u","i","d","e">>, <<>>, <<>>, <<>>),
     Anchor(TRUE, <<"v","i","e","w","?","f","i","l","e","=","b",".","p","d","f">>, <<"G","u","i","d","e">>, <<"G","u","i","d","e">>, <<>>, <<>>, <<>>)}

SameNameOutcomes ==
    {[ok |-> FALSE, error |-> <<"C","o","n","n","e","c","t","i","o","n"," ","t","i","m","e","d"," ","o","u","t">>]}
        \cup {[ok |-> TRUE, anchors |-> p] :
                 p \in SeqsUpTo(SameNameAnchors, MaxAnchors)}

SameNameChoices ==
    IF run <= 1 THEN SameNameOutcomes ELSE {script.discover[1]}

NextSameName ==
    \/ \E u \in SeedUrls : Invoke(u)
    \/ \E d \in SameNameChoices : DiscoverFails(d)
    \/ \E d \in SameNameChoices : Discover(d)
    \/ Categorize
    \/ \E f \in FetchChoices : DownloadFails(f)
    \/ \E f \in FetchChoices : Download(f)
    \/ \E p \in PutChoices : UploadFails(p)
    \/ \E p \in PutChoices : Upload(p)
    \/ Finish

SpecSameName ==
    Init /\ [][NextSameName]_vars

\* ------------------------------------------------------------------------
\* process_pdfs when every call it makes returns or raises
\* ------------------------------------------------------------------------

\* The steps of a started invocation. session.get has a timeout (lines 110
\* and 208) and put_object returns or raises, so none of them waits for ever;
\* the other steps are the program's own.
ProcessSteps ==
    \/ \E d \in DiscoverChoices : DiscoverFails(d)
    \/ \E d \in DiscoverChoices : Discover(d)
    \/ Categorize
    \/ \E f \in FetchChoices : DownloadFails(f)
    \/ \E f \in FetchChoices : Download(f)
    \/ \E p \in PutChoices : UploadFails(p)
    \/ \E p \in PutChoices : Upload(p)
    \/ Finish

\* One invocation of process_pdfs.
NextOnce ==
    \/ \E u \in SeedUrls : run = 0 /\ Invoke(u)
    \/ ProcessSteps

SpecTerminating ==
    Init /\ [][NextOnce]_vars /\ WF_vars(ProcessSteps)

\* ------------------------------------------------------------------------
\* rag_system.py: handle_rag_query called on its own
\* ------------------------------------------------------------------------

\* The template generate_mock_response returns, given by its closing line.
generate_mock_response(query) ==
    Let(lower(query), LAMBDA query_lower :
        IF /\ Contains(query_lower, <<"c","p","s">>)
           /\ (Contains(query_lower, <<"a","s","s","e","s","s","m","e","n","t">>)
               \/ Contains(query_lower, <<"e","v","a","l","u","a","t","i","o","n">>))
        THEN <<"*","S","o","u","r","c","e",":"," ","N","C","D","H","H","S"," ","C","h","i","l","d"," ","W","e","l","f","a","r","e"," ","M","a","n","u","a","l"," ","-"," ","C","P","S"," ","A","s","s","e","s","s","m","e","n","t"," ","P","r","o","c","e","d","u","r","e","s","*">>
        ELSE IF Contains(query_lower, <<"a","d","o","p","t","i","o","n">>)
        THEN <<"*","S","o","u","r","c","e",":"," ","N","C","D","H","H","S"," ","C","h","i","l","d"," ","W","e","l","f","a","r","e"," ","M","a","n","u","a","l"," ","-"," ","A","d","o","p","t","i","o","n"," ","S","e","r","v","i","c","e","s","*">>
        ELSE IF Contains(query_lower, <<"s","a","f","e"," ","s","l","e","e","p">>) \/ Contains(query_lower, <<"s","i","d","s">>)
        THEN <<"*","S","o","u","r","c","e",":"," ","N","C","D","H","H","S"," ","S","a","f","e"," ","S","l","e","e","p"," ","R","e","s","o","u","r","c","e","s"," ","a","n","d"," ","P","o","l","i","c","i","e","s","*">>
        ELSE <<"*","S","o","u","r","c","e",":"," ","N","C","D","H","H","S"," ","C","h","i","l","d"," ","W","e","l","f","a","r","e"," ","S","e","r","v","i","c","e","s"," ","P","o","l","i","c","y"," ","M","a","n","u","a","l","*">>)

\* The sources get_mock_sources returns: filename and section of each.
get_mock_sources(query) ==
    Let(lower(query), LAMBDA query_lower :
        IF Contains(query_lower, <<"c","p","s">>) /\ Contains(query_lower, <<"a","s","s","e","s","s","m","e","n","t">>)
        THEN <<[filename |-> <<"c","p","s","-","a","s","s","e","s","s","m","e","n","t","s","-","m","a","y","-","2","0","2","5","-","1",".","p","d","f">>,
                section |-> <<"c","h","i","l","d","-","w","e","l","f","a","r","e","-","m","a","n","u","a","l","s">>],
               [filename |-> <<"c","r","o","s","s","-","f","u","n","c","t","i","o","n","s","-","o","c","t","-","2","0","2","4","-","1",".","p","d","f">>,
                section |-> <<"c","h","i","l","d","-","w","e","l","f","a","r","e","-","m","a","n","u","a","l","s">>]>>
        ELSE IF Contains(query_lower, <<"a","d","o","p","t","i","o","n">>)
        THEN <<[filename |-> <<"a","d","o","p","t","i","o","n","s","-","1",".","p","d","f">>,
                section |-> <<"c","h","i","l","d","-","w","e","l","f","a","r","e","-","m","a","n","u","a","l","s">>]>>
        ELSE IF Contains(query_lower, <<"s","a","f","e"," ","s","l","e","e","p">>)
        THEN <<[filename |-> <<"s","a","f","e","-","s","l","e","e","p","-","p","o","l","i","c","y",".","p","d","f">>,
                section |-> <<"s","a","f","e","-","s","l","e","e","p","-","r","e","s","o","u","r","c","e","s">>]>>
        ELSE <<[filename |-> <<"p","u","r","p","o","s","e",".","p","d","f">>,
                section |-> <<"c","h","i","l","d","-","w","e","l","f","a","r","e","-","m","a","n","u","a","l","s">>]>>)

\* handle_rag_query: what the RAGResponse holds of the query (log_interaction
\* catches its own exceptions and changes nothing of the response).
handle_rag_query(query) ==
    IF query = <<>>
    THEN [success |-> FALSE, error |-> <<"Q","u","e","r","y"," ","i","s"," ","r","e","q","u","i","r","e","d">>]
    ELSE [success |-> TRUE, response |-> generate_mock_response(query),
          sources |-> get_mock_sources(query)]

\* The largest number of words of a query.
MaxWords == 2

QueryWords ==
    {<<"C","P","S">>, <<"a","s","s","e","s","s","m","e","n","t">>, <<"e","v","a","l","u","a","t","i","o","n">>, <<"a","d","o","p","t","i","o","n">>, <<"s","a","f","e"," ","s","l","e","e","p">>,
     <<"S","I","D","S">>, <<"f","o","s","t","e","r">>, <<"h","e","l","p">>}

Queries ==
    {join(words, " ") : words \in SeqsUpTo(QueryWords, MaxWords)}

InitRag ==
    /\ pc = "call"
    /\ Fresh
    /\ arg \in Queries
    /\ ret = <<>>

CallRag ==
    /\ pc = "call"
    /\ ret' = handle_rag_query(arg)
    /\ pc' = "done"
    /\ UNCHANGED <<run, url, pdf_links, i, item, results, errors,
                   section_counts, response, bucket, trace, script, arg>>

NextRag ==
    CallRag

SpecRag ==
    InitRag /\ [][NextRag]_vars
\* ------------------------------------------------------------------------
\* Properties
\* ------------------------------------------------------------------------

\* The positions of the trace where a link failed, and where one was stored.
Failures ==
    {n \in DOMAIN trace : trace[n].op \in {"download", "put_object"} /\ ~trace[n].ok}

Stored ==
    {n \in DOMAIN trace : trace[n].op = "put_object" /\ trace[n].ok}

\* The steps of link k, in order, as (operation, succeeded) pairs.
EventsOf(k) ==
    SelectSeq(trace, LAMBDA e : e.index = k)

StepsOf(k) ==
    Let(EventsOf(k), LAMBDA es : [n \in DOMAIN es |-> <<es[n].op, es[n].ok>>])

\* The sum of the counts of a section -> count mapping.
RECURSIVE SumOfCounts(_, _)
SumOfCounts(counts, sections) ==
    IF sections = {} THEN 0
    ELSE Let(CHOOSE s \in sections : TRUE, LAMBDA s :
         Let(sections \ {s}, LAMBDA rest :
             counts[s] + SumOfCounts(counts, rest)))

\* The bytes begin with %PDF.
StartsWithSignature(bytes) ==
    /\ Len(bytes) >= 4
    /\ bytes[1] = "%" /\ bytes[2] = "P" /\ bytes[3] = "D" /\ bytes[4] = "F"

\* The text contains pdf, in any mix of cases.
MentionsPdf(text) ==
    \E k \in 1..(Len(text) - 2) :
        /\ text[k] \in {"p", "P"}
        /\ text[k + 1] \in {"d", "D"}
        /\ text[k + 2] \in {"f", "F"}

\* The content type a response declares, as it was sent ('' when missing).
ObservedContentType(resp) ==
    IF resp.has_content_type THEN resp.content_type ELSE <<>>

PassesValidation(resp) ==
    StartsWithSignature(resp.content) \/ MentionsPdf(ObservedContentType(resp))

InvalidFileType ==
    <<"I","n","v","a","l","i","d"," ","f","i","l","e"," ","t","y","p","e","."," ","E","x","p","e","c","t","e","d"," ","P","D","F",","," ","g","o","t",":"," ">>

\* C1: when discovery returned at least one link, whatever the downloads and
\* uploads did, the returned summary has total = successful + failed, where
\* total is the number of discovered links, successful the length of results
\* and failed the number of recorded errors (one per failed link).
C1_TotalIsSuccessfulPlusFailed ==
    (pc = "returned" /\ pdf_links # <<>>) =>
        /\ "summary" \in DOMAIN response
        /\ response.summary.total
               = response.summary.successful + response.summary.failed
        /\ response.summary.total = Len(pdf_links)
        /\ response.summary.successful = Len(response.results)
        /\ response.summary.failed = Len(response.errors)
        /\ response.summary.successful = Cardinality(Stored)
        /\ response.summary.failed = Cardinality(Failures)

\* A run over two links, one stored and one whose upload failed, has returned.
C1_Witness ==
    /\ pc = "returned"
    /\ Len(pdf_links) = 2
    /\ response.summary.total = 2
    /\ response.summary.successful = 1
    /\ response.summary.failed = 1
    /\ \E n \in Failures : trace[n].op = "put_object"

\* C2: for every run, the per-category counts of summary.sections sum to
\* summary.successful: only links downloaded and uploaded successfully count
\* toward the category totals.
C2_SectionsSumToSuccessful ==
    (pc = "returned" /\ "summary" \in DOMAIN response) =>
        SumOfCounts(response.summary.sections, DOMAIN response.summary.sections)
            = response.summary.successful

\* C3: a failure of one link never aborts the run: every discovered link is
\* attempted exactly once, each failed link adds exactly one entry to errors
\* carrying its url, the links after it are still processed; two links of
\* which the second download fails give total 2, successful 1, failed 1 and
\* one error entry naming the second url.
C3_FailureNeverAborts ==
    (pc = "returned" /\ pdf_links # <<>>) =>
        /\ "summary" \in DOMAIN response
        /\ \A k \in 1..Len(pdf_links) :
               /\ Cardinality({n \in DOMAIN trace :
                      trace[n].op = "download" /\ trace[n].index = k}) = 1
               /\ Cardinality({n \in Failures : trace[n].index = k}) <= 1
               /\ Cardinality({n \in DOMAIN response.errors :
                      response.errors[n].url = pdf_links[k].url})
                      = Cardinality({n \in Failures : trace[n].index = k})
        /\ Len(response.results) + Len(response.errors) = Len(pdf_links)
        /\ (/\ Len(pdf_links) = 2
            /\ \E n \in Stored : trace[n].index = 1
            /\ \E n \in Failures : trace[n].index = 2 /\ trace[n].op = "download")
           => /\ response.summary.total = 2
              /\ response.summary.successful = 1
              /\ response.summary.failed = 1
              /\ Len(response.errors) = 1
              /\ response.errors[1].url = pdf_links[2].url

\* A run over two links has returned: the first was stored, the download of
\* the second failed.
C3_Witness ==
    /\ pc = "returned"
    /\ Len(pdf_links) = 2
    /\ \E n \in Stored : trace[n].index = 1
    /\ \E n \in Failures : trace[n].index = 2 /\ trace[n].op = "download"

\* C4: if discovery fails, process_pdfs does not raise and returns no partial
\* results: it returns success = false with the error message, and the run
\* performs no download and no upload.
C4_DiscoveryFailureAborts ==
    (pc = "returned" /\ trace # <<>> /\ ~trace[1].ok) =>
        /\ response = [success |-> FALSE, error |-> script.discover[1].error]
        /\ \A n \in DOMAIN trace : trace[n].op \notin {"download", "put_object"}
        /\ results = <<>>
        /\ errors = <<>>

\* process_pdfs has returned after a discovery that raised.
C4_Witness ==
    /\ pc = "returned"
    /\ trace # <<>>
    /\ ~trace[1].ok
    /\ ~script.discover[1].ok
    /\ ~response.success

\* C5: if discovery succeeds with zero links, process_pdfs returns at once
\* success = true, total = successful = failed = 0, empty sections, empty
\* results and an explanatory message, reports no error, and performs no
\* download and no upload.
C5_NoLinksShortCircuit ==
    (pc = "returned" /\ trace # <<>> /\ trace[1].ok /\ pdf_links = <<>>) =>
        /\ response.success
        /\ response.summary.total = 0
        /\ response.summary.successful = 0
        /\ response.summary.failed = 0
        /\ DOMAIN response.summary.sections = {}
        /\ response.results = <<>>
        /\ "message" \in DOMAIN response
        /\ response.message # <<>>
        /\ "error" \notin DOMAIN response
        /\ "errors" \notin DOMAIN response
        /\ Len(trace) = 1

\* process_pdfs has returned for a page that has anchors, none of them a PDF.
C5_Witness ==
    /\ pc = "returned"
    /\ trace # <<>>
    /\ trace[1].ok
    /\ pdf_links = <<>>
    /\ script.discover[1].anchors # <<>>
    /\ response.success

\* C6 (as amended): download_pdf accepts a fetched payload if and only if its
\* bytes begin with %PDF or its declared content type, compared
\* case-insensitively, contains 'pdf'; when neither holds it raises a
\* validation error whose message carries the lower-cased content type, and
\* when either holds it returns the bytes unchanged and the content type
\* lower-cased.
C6_DownloadValidates ==
    (pc = "done" /\ arg.ok) =>
        /\ ret.ok <=> PassesValidation(arg.resp)
        /\ ret.ok => /\ ret.content = arg.resp.content
                     /\ ret.content_type = lower(ObservedContentType(arg.resp))
        /\ ~ret.ok => ret.error
                          = InvalidFileType \o lower(ObservedContentType(arg.resp))

\* download_pdf has accepted a payload without the signature for its
\* content type, which was sent in mixed case.
C6_Witness ==
    /\ pc = "done"
    /\ arg.ok
    /\ ret.ok
    /\ ~StartsWithSignature(arg.resp.content)
    /\ ObservedContentType(arg.resp) # lower(ObservedContentType(arg.resp))

\* C6 as stated: the accepted content type is returned unchanged and the
\* message of the validation error carries the content type as observed.
C6_ContentTypeUnchanged ==
    (pc = "done" /\ arg.ok) =>
        /\ ret.ok <=> PassesValidation(arg.resp)
        /\ ret.ok => /\ ret.content = arg.resp.content
                     /\ ret.content_type = ObservedContentType(arg.resp)
        /\ ~ret.ok => ret.error = InvalidFileType \o ObservedContentType(arg.resp)

\* The ways a link can have gone so far: categorized, downloaded, uploaded
\* (and with that recorded), or failed at the download or at the upload.
ItemPaths ==
    {<<>>,
     <<<<"categorize", TRUE>>>>,
     <<<<"categorize", TRUE>>, <<"download", FALSE>>>>,
     <<<<"categorize", TRUE>>, <<"download", TRUE>>>>,
     <<<<"categorize", TRUE>>, <<"download", TRUE>>, <<"put_object", FALSE>>>>,
     <<<<"categorize", TRUE>>, <<"download", TRUE>>, <<"put_object", TRUE>>>>}

\* C7: each link goes through categorized, downloaded, uploaded, recorded in
\* this order, or fails at one of the steps: an upload is attempted for a
\* link only after that link's own download succeeded and passed validation,
\* a link whose download failed is never uploaded, and a result entry is
\* appended only after the upload returned successfully.
C7_ItemStatesInOrder ==
    /\ \A k \in 1..Len(pdf_links) :
           /\ StepsOf(k) \in ItemPaths
           /\ \A n \in DOMAIN trace :
                  (trace[n].index = k /\ trace[n].op = "put_object") =>
                      \E m \in 1..(n - 1) :
                          /\ trace[m].index = k
                          /\ trace[m].op = "download"
                          /\ trace[m].ok
                          /\ trace[m].fetched.ok
                          /\ PassesValidation(trace[m].fetched.resp)
           /\ (\E r \in DOMAIN results : results[r].original_url = pdf_links[k].url)
                  <=> (\E n \in Stored : trace[n].index = k)
    /\ Len(results) = Cardinality(Stored)

\* Of two links the first went the whole way and the second failed at the
\* upload.
C7_Witness ==
    /\ Len(pdf_links) = 2
    /\ StepsOf(1) = <<<<"categorize", TRUE>>, <<"download", TRUE>>,
                      <<"put_object", TRUE>>>>
    /\ StepsOf(2) = <<<<"categorize", TRUE>>, <<"download", TRUE>>,
                      <<"put_object", FALSE>>>>

\* Link k is recorded, in results or in errors.
IsRecorded(k) ==
    \/ \E r \in DOMAIN results : results[r].original_url = pdf_links[k].url
    \/ \E r \in DOMAIN errors : errors[r].url = pdf_links[k].url

\* The position of a url among the discovered links.
PositionOf(u) ==
    CHOOSE k \in 1..Len(pdf_links) : pdf_links[k].url = u

\* C8: links are handled one at a time in discovery order: the download of
\* a link never starts before every link ahead of it has been recorded in
\* results or in errors, and results and errors each list their links in the
\* order discovery returned them.
C8_OneAtATimeInDiscoveryOrder ==
    /\ \A m, n \in DOMAIN trace : m < n => trace[m].index <= trace[n].index
    /\ pc \in {"downloading", "uploading"} =>
           /\ item.pdf_link = pdf_links[i]
           /\ \A k \in 1..Len(pdf_links) : IsRecorded(k) <=> k < i
    /\ \A a, b \in DOMAIN results :
           a < b => PositionOf(results[a].original_url)
                        < PositionOf(results[b].original_url)
    /\ \A a, b \in DOMAIN errors :
           a < b => PositionOf(errors[a].url) < PositionOf(errors[b].url)

\* The second link is being downloaded after the first was recorded.
C8_Witness ==
    /\ pc = "downloading"
    /\ i = 2
    /\ Len(results) = 1
    /\ IsRecorded(1)
    /\ ~IsRecorded(2)

\* C9: the key written by upload_to_s3 is exactly 'ncdhhs-pdfs/' +
\* sanitize_folder_name(category) + '/' + sanitize_filename(original
\* filename), so a second run over the same page with the same per-link
\* outcomes leaves the store with the keys the first run left: objects are
\* overwritten, not duplicated.
C9_KeyIsDeterministic ==
    /\ (trace # <<>> /\ trace[Len(trace)].op = "put_object") =>
           trace[Len(trace)].key
               = <<"n","c","d","h","h","s","-","p","d","f","s","/">> \o sanitize_folder_name(item.section) \o <<"/">>
                     \o sanitize_filename(item.original_filename)
    /\ pc = "returned" =>
           DOMAIN bucket = {results[r].s3_key : r \in DOMAIN results}
    /\ (pc = "returned" /\ run >= 2) => DOMAIN bucket = script.keys

\* The second run over a page has returned after storing two objects again.
C9_Witness ==
    /\ pc = "returned"
    /\ run = 2
    /\ Len(results) = 2
    /\ Cardinality(DOMAIN bucket) = 2
    /\ DOMAIN bucket = script.keys

\* The eight labels, and the keywords of the seven rules.
Labels ==
    {ChildWelfareManuals, ChildWelfareAppendices, ChildWelfarePracticeResources,
     SafeSleepResources, DisasterPreparedness, PathSdmToolsManuals,
     AdministrativeManuals, OtherResources}

AllKeywords ==
    UNION {Range(keywords) : keywords \in
               {ManualsKeywords, AppendicesKeywords, PracticeKeywords,
                SafeSleepKeywords, DisasterKeywords, PathSdmKeywords,
                AdministrativeKeywords}}

\* The keyword occurs in the text.
Occurs(keyword, text) ==
    \E k \in 0..(Len(text) - Len(keyword)) :
        SubSeq(text, k + 1, k + Len(keyword)) = keyword

\* C10: categorize_section returns, for every (link text, url, context),
\* exactly one of the eight labels, and returns 'other-resources' if and only
\* if the lower-cased text made of the three inputs (joined by single spaces,
\* as the code joins them) contains no keyword of any of the seven rules.
C10_CategorizeIsTotal ==
    pc = "done" =>
        /\ ret \in Labels
        /\ \E text \in {lower(arg.link_text \o <<" ">> \o arg.link_url
                              \o <<" ">> \o arg.nearby_text)} :
               ret = OtherResources
                   <=> \A keyword \in AllKeywords : ~Occurs(keyword, text)

\* categorize_section has fallen back to 'other-resources' for a document
\* without any keyword.
C10_Witness ==
    /\ pc = "done"
    /\ ret = OtherResources
    /\ arg.link_text = <<"U","n","k","n","o","w","n"," ","D","o","c","u","m","e","n","t">>
    /\ arg.link_url = <<"u","n","k","n","o","w","n",".","p","d","f">>
    /\ arg.nearby_text = <<"r","a","n","d","o","m"," ","t","e","x","t">>

\* The rules in the order categorize_section tests them.
RuleOrder ==
    <<<<ManualsKeywords, ChildWelfareManuals>>,
      <<AppendicesKeywords, ChildWelfareAppendices>>,
      <<PracticeKeywords, ChildWelfarePracticeResources>>,
      <<SafeSleepKeywords, SafeSleepResources>>,
      <<DisasterKeywords, DisasterPreparedness>>,
      <<PathSdmKeywords, PathSdmToolsManuals>>,
      <<AdministrativeKeywords, AdministrativeManuals>>>>

\* The rules with a keyword in the text.
MatchingRules(text) ==
    {r \in DOMAIN RuleOrder :
        \E keyword \in Range(RuleOrder[r][1]) : Occurs(keyword, text)}

\* The text categorize_section searches, for the arguments a.
SearchedText(a) ==
    lower(a.link_text \o <<" ">> \o a.link_url \o <<" ">> \o a.nearby_text)

\* C11: categorize_section is first-match-wins over the fixed rule order:
\* when the text contains keywords of several rules the result is the label
\* of the earliest such rule; a text with a rule 1 and a rule 3 keyword
\* gives 'child-welfare-manuals'.
C11_FirstMatchWins ==
    pc = "done" =>
        \E matching \in {MatchingRules(SearchedText(arg))} :
            /\ matching # {} =>
                   \E first \in matching :
                       /\ \A r \in matching : first <= r
                       /\ ret = RuleOrder[first][2]
            /\ {1, 3} \subseteq matching => ret = ChildWelfareManuals

\* categorize_section has returned for a text with keywords of rule 1 and of
\* rule 3.
C11_Witness ==
    /\ pc = "done"
    /\ {1, 3} \subseteq MatchingRules(SearchedText(arg))
    /\ ret = ChildWelfareManuals

\* C12: categorize_section('CPS Assessment', 'cps.pdf', 'child welfare')
\* returns 'child-welfare-manuals'.
C12_CpsAssessmentIsManual ==
    (/\ pc = "done"
     /\ arg = [link_text |-> <<"C","P","S"," ","A","s","s","e","s","s","m","e","n","t">>, link_url |-> <<"c","p","s",".","p","d","f">>,
               nearby_text |-> <<"c","h","i","l","d"," ","w","e","l","f","a","r","e">>])
        => ret = ChildWelfareManuals

\* The positions of the candidates whose url no earlier candidate has.
FirstOccurrences(candidates) ==
    {k \in DOMAIN candidates :
        \A m \in 1..(k - 1) : candidates[m].url # candidates[k].url}

\* C13: discover_pdf_links returns each resolved absolute URL at most once:
\* of the candidates resolving to one URL (a relative and an absolute form of
\* the same target included) only the first is kept, with its text and
\* context, and the links kept are in document order.
C13_FirstOccurrenceWins ==
    pc = "done" =>
        /\ \A a, b \in DOMAIN ret : a # b => ret[a].url # ret[b].url
        /\ \E candidates \in {candidate_links(arg.url, arg.anchors)} :
           \E first \in {FirstOccurrences(candidates)} :
               /\ Len(ret) = Cardinality(first)
               /\ \A j \in DOMAIN ret :
                      \E k \in first :
                          /\ Cardinality({m \in first : m <= k}) = j
                          /\ ret[j] = candidates[k]

\* discover_pdf_links has returned for a page whose first anchor is a
\* relative link and whose second is the absolute form of the same target,
\* followed by another PDF.
C13_Witness ==
    /\ pc = "done"
    /\ Len(arg.anchors) = 3
    /\ arg.anchors[1].href = <<"c","p","s","-","i","n","t","a","k","e",".","p","d","f">>
    /\ arg.anchors[2].href = <<"h","t","t","p","s",":","/","/","e","x","a","m","p","l","e",".","c","o","m","/","d","o","c","s","/","c","p","s","-","i","n","t","a","k","e",".","p","d","f">>
    /\ arg.anchors[3].href = <<"r","e","p","o","r","t",".","p","d","f","?","d","o","w","n","l","o","a","d","=","1">>
    /\ Len(ret) = 2
    /\ ret[1].text = <<"C","P","S"," ","I","n","t","a","k","e">>
    /\ ret[2].text = <<"R","e","p","o","r","t">>

\* The anchors with an href that contains '.pdf'.
PdfAnchors(anchors) ==
    {a \in Range(anchors) : a.has_href /\ Occurs(<<".","p","d","f">>, a.href)}

\* C14: discover_pdf_links returns a link for an anchor if and only if the
\* anchor has an href that contains '.pdf'; anchors whose href lacks '.pdf',
\* such as a '.txt' target, never appear in the result.
C14_OnlyPdfAnchors ==
    pc = "done" =>
        /\ {ret[j].url : j \in DOMAIN ret}
               = {urljoin(arg.url, a.href) : a \in PdfAnchors(arg.anchors)}
        /\ \A a \in Range(arg.anchors) \ PdfAnchors(arg.anchors) :
               \A j \in DOMAIN ret :
                   /\ ret[j].text # a.text
                   /\ a.has_href => ret[j].url # urljoin(arg.url, a.href)

\* discover_pdf_links has returned one link for a page with a '.pdf' anchor
\* (the '.pdf' inside its href) and a '.txt' anchor.
C14_Witness ==
    /\ pc = "done"
    /\ Len(arg.anchors) = 2
    /\ arg.anchors[1].href = <<"r","e","p","o","r","t",".","p","d","f","?","d","o","w","n","l","o","a","d","=","1">>
    /\ arg.anchors[2].href = <<"n","o","t","e","s",".","t","x","t">>
    /\ Len(ret) = 1
    /\ ret[1].url = <<"h","t","t","p","s",":","/","/","e","x","a","m","p","l","e",".","c","o","m","/","d","o","c","s","/","r","e","p","o","r","t",".","p","d","f","?","d","o","w","n","l","o","a","d","=","1">>

\* C15: sanitize_filename and sanitize_folder_name are idempotent: applied
\* to their own result they return it unchanged.
C15_SanitizersAreIdempotent ==
    pc = "twice" =>
        /\ ret[2].filename = ret[1].filename
        /\ ret[2].folder_name = ret[1].folder_name

\* Both sanitizers were applied twice to a name that each of them changes.
C15_Witness ==
    /\ pc = "twice"
    /\ arg # <<>>
    /\ ret[1].filename # arg
    /\ ret[1].folder_name # arg
    /\ ret[1].folder_name # <<>>
    /\ ret[2] = ret[1]

\* The characters [A-Za-z0-9.-] lower-cased and every other one replaced by
\* an underscore.
ReplacedAndLowered(name) ==
    [k \in DOMAIN name |->
        IF name[k] \in Alnum \cup {".", "-"} THEN lower_char(name[k]) ELSE "_"]

\* text without the underscores that follow an underscore.
WithoutRepeatedUnderscores(text) ==
    Let(SelectSeq([k \in DOMAIN text |-> k],
                  LAMBDA k : ~(text[k] = "_" /\ k > 1 /\ text[k - 1] = "_")),
        LAMBDA kept : [j \in DOMAIN kept |-> text[kept[j]]])

\* C16: sanitize_filename returns its input with every character outside
\* [A-Za-z0-9.-] replaced by '_', every run of '_' collapsed to one '_' and
\* all letters lower-cased: the output has only characters of [a-z0-9._-]
\* and no two adjacent underscores; 'test@file#.pdf' gives 'test_file_.pdf'
\* and 'test___file.pdf' gives 'test_file.pdf'.
C16_SanitizeFilenameForm ==
    pc \in {"once", "twice"} =>
        /\ ret[1].filename = WithoutRepeatedUnderscores(ReplacedAndLowered(arg))
        /\ Range(ret[1].filename) \subseteq Lowers \cup Digits \cup {".", "_", "-"}
        /\ \A k \in 1..(Len(ret[1].filename) - 1) :
               ~(ret[1].filename[k] = "_" /\ ret[1].filename[k + 1] = "_")
        /\ arg = <<"t","e","s","t","@","f","i","l","e","#",".","p","d","f">> => ret[1].filename = <<"t","e","s","t","_","f","i","l","e","_",".","p","d","f">>
        /\ arg = <<"t","e","s","t","_","_","_","f","i","l","e",".","p","d","f">> => ret[1].filename = <<"t","e","s","t","_","f","i","l","e",".","p","d","f">>

\* sanitize_filename has returned for a name with an upper-case letter and a
\* run made of an underscore and a special character.
C16_Witness ==
    /\ pc = "once"
    /\ arg = <<"A", "_", "@", "b">>
    /\ ret[1].filename = <<"a", "_", "b">>

\* C17: the result of sanitize_folder_name never begins or ends with '-' or
\* with white space.
C17_FolderNameIsTrimmed ==
    (pc \in {"once", "twice"} /\ ret[1].folder_name # <<>>) =>
        /\ ret[1].folder_name[1] \notin {"-"} \cup Whitespace
        /\ ret[1].folder_name[Len(ret[1].folder_name)] \notin {"-"} \cup Whitespace

\* The key is 'ncdhhs-pdfs/', a category of [a-z0-9-], '/', and a filename
\* of [a-z0-9._-].
WellFormedKey(key) ==
    /\ Len(key) > 12
    /\ SubSeq(key, 1, 12) = <<"n","c","d","h","h","s","-","p","d","f","s","/">>
    /\ \E slash \in 13..Len(key) :
           /\ key[slash] = "/"
           /\ \A k \in 13..(slash - 1) : key[k] \in Lowers \cup Digits \cup {"-"}
           /\ \A k \in (slash + 1)..Len(key) :
                  key[k] \in Lowers \cup Digits \cup {".", "_", "-"}

\* C18: every object key written to the store during any run has the form
\* 'ncdhhs-pdfs/<category>/<filename>' in lower-case ASCII: the category has
\* only characters of [a-z0-9-], the filename only characters of
\* [a-z0-9._-], and neither contains '/'.
C18_KeysAreWellFormed ==
    /\ \A key \in DOMAIN bucket : WellFormedKey(key)
    /\ (trace # <<>> /\ trace[Len(trace)].op = "put_object") =>
           WellFormedKey(trace[Len(trace)].key)

\* The store holds the object of a link whose file name has an upper-case
\* letter and the object of a link named after its anchor text.
C18_Witness ==
    /\ pc = "returned"
    /\ <<"n","c","d","h","h","s","-","p","d","f","s","/","c","h","i","l","d","-","w","e","l","f","a","r","e","-","a","p","p","e","n","d","i","c","e","s","/","r","e","p","o","r","t",".","p","d","f">> \in DOMAIN bucket
    /\ <<"n","c","d","h","h","s","-","p","d","f","s","/","o","t","h","e","r","-","r","e","s","o","u","r","c","e","s","/","p","d","f","_","d","o","c","u","m","e","n","t",".","p","d","f">> \in DOMAIN bucket

\* The body of the event when it is a dict: the event itself without a
\* 'body' key, the dict under 'body', or the dict a str under 'body' holds.
BodyObjects(event) ==
    {b \in {event} : "body" \notin DOMAIN event.fields}
        \cup {event.fields[f] : f \in {g \in DOMAIN event.fields :
                 g = "body" /\ event.fields[g].type = "object"}}
        \cup {event.fields[f].value : f \in {g \in DOMAIN event.fields :
                 /\ g = "body"
                 /\ event.fields[g].type = "text"
                 /\ event.fields[g].valid
                 /\ event.fields[g].value.type = "object"}}

\* The dict has no url, or an empty one.
UrlMissingOrEmpty(b) ==
    IF "url" \in DOMAIN b.fields
    THEN b.fields.url \in {JsonNull, JsonString(<<>>)}
    ELSE TRUE

\* C19: lambda_handler rejects a request whose body has no url (missing or
\* empty): it returns statusCode 400 with a body holding success = false
\* and the error 'URL is required', and process_pdfs is never invoked.
C19_MissingUrlIsRejected ==
    (/\ pc # "call"
     /\ \E b \in BodyObjects(arg) : UrlMissingOrEmpty(b))
        => /\ pc = "done"
           /\ trace = <<>>
           /\ ret.statusCode = 400
           /\ ret.body = json_dumps([success |-> FALSE,
                                     error |-> <<"U","R","L"," ","i","s"," ","r","e","q","u","i","r","e","d">>])

\* lambda_handler has returned for an event whose body is the text of an
\* empty JSON object.
C19_Witness ==
    /\ pc = "done"
    /\ arg = JsonObject([body |-> json_dumps(JsonObject(<<>>))])
    /\ ret.statusCode = 400

\* C20: lambda_handler never raises: when process_pdfs or the parsing of the
\* event throws it returns statusCode 500 with a body holding success =
\* false and the exception message, and when process_pdfs returns it returns
\* statusCode 200 with the result as the JSON body.
C20_HandlerNeverRaises ==
    /\ pc = "call" => ENABLED (HandlerReturnsEarly \/ HandlerCallsProcess)
    /\ pc = "done" =>
           /\ "statusCode" \in DOMAIN ret
           /\ (Len(trace) = 2 /\ ~trace[2].outcome.ok) =>
                  /\ ret.statusCode = 500
                  /\ ret.body = json_dumps([success |-> FALSE,
                                            error |-> trace[2].outcome.error])
           /\ (Len(trace) = 2 /\ trace[2].outcome.ok) =>
                  /\ ret.statusCode = 200
                  /\ ret.body = json_dumps(trace[2].outcome.result)
           /\ BodyObjects(arg) = {} =>
                  /\ trace = <<>>
                  /\ ret.statusCode = 500
                  /\ ~ret.body.value.success
                  /\ ret.body.value.error # <<>>
                  /\ (arg.fields.body.type = "text" /\ ~arg.fields.body.valid) =>
                         ret.body.value.error = arg.fields.body.error

\* lambda_handler has returned 500 after process_pdfs raised.
C20_Witness ==
    /\ pc = "done"
    /\ Len(trace) = 2
    /\ ~trace[2].outcome.ok
    /\ trace[2].outcome.error = <<"P","r","o","c","e","s","s","i","n","g"," ","f","a","i","l","e","d">>
    /\ ret.statusCode = 500


\* The categories of the discovered links, in discovery order.
SectionsOfLinks ==
    [k \in DOMAIN pdf_links |-> section_of(pdf_links[k])]

\* The number of categorization steps the invocation has made.
Categorized ==
    Cardinality({n \in DOMAIN trace : trace[n].op = "categorize"})

\* C21: the per-category counter is incremented exactly once for every link
\* that reaches categorization, whatever its download or upload does later:
\* the counts always sum to the number of categorized links, a link whose
\* download failed is counted in its category, and when the run returns
\* summary.sections gives, for each category, the number of discovered links
\* of that category, which sums to summary.total.
C21_SectionsCountAttempts ==
    /\ (pc \in {"item", "downloading", "uploading"}) =>
           /\ SumOfCounts(section_counts, DOMAIN section_counts) = Categorized
           /\ \A n \in Failures :
                  (n = Len(trace) /\ trace[n].op = "download") =>
                      /\ item.section \in DOMAIN section_counts
                      /\ section_counts[item.section] >= 1
                      /\ Categorized = trace[n].index
    /\ (pc = "returned" /\ pdf_links # <<>>) =>
           /\ "summary" \in DOMAIN response
           /\ SumOfCounts(response.summary.sections,
                          DOMAIN response.summary.sections)
                  = response.summary.total
           /\ \E secs \in {SectionsOfLinks} :
                  /\ DOMAIN response.summary.sections = Range(secs)
                  /\ \A s \in Range(secs) :
                         response.summary.sections[s]
                             = Cardinality({k \in DOMAIN secs : secs[k] = s})

\* A run over two links of one category has returned: the download of the
\* first failed, the second was stored, and the category counts 2.
C21_Witness ==
    /\ pc = "returned"
    /\ Len(pdf_links) = 2
    /\ \E n \in Failures : trace[n].op = "download" /\ trace[n].index = 1
    /\ \E n \in Stored : trace[n].index = 2
    /\ response.summary.successful = 1
    /\ \E s \in DOMAIN response.summary.sections :
           response.summary.sections[s] = 2

\* C22: sanitize_filename replaces each invalid character by its own
\* underscore, also in a run of special characters before the extension:
\* sanitize_filename('test file@#$.pdf') = 'test_file___.pdf'.
C22_OneUnderscorePerCharacter ==
    (pc \in {"once", "twice"} /\ arg = <<"t","e","s","t"," ","f","i","l","e","@","#","$",".","p","d","f">>) =>
        ret[1].filename = <<"t","e","s","t","_","f","i","l","e","_","_","_",".","p","d","f">>

\* C23: sanitize_folder_name turns a special character between two words into
\* a hyphen and drops a trailing one: sanitize_folder_name('child@welfare#')
\* = 'child-welfare', as 'child welfare' gives 'child-welfare' and
\* 'child   welfare---manual' gives 'child-welfare-manual'.
C23_SpecialCharacterSeparates ==
    /\ (pc \in {"once", "twice"} /\ arg = <<"c","h","i","l","d","@","w","e","l","f","a","r","e","#">>) =>
           ret[1].folder_name = <<"c","h","i","l","d","-","w","e","l","f","a","r","e">>
    /\ (pc \in {"once", "twice"} /\ arg = <<"c","h","i","l","d"," ","w","e","l","f","a","r","e">>) =>
           ret[1].folder_name = <<"c","h","i","l","d","-","w","e","l","f","a","r","e">>
    /\ (pc \in {"once", "twice"} /\ arg = <<"c","h","i","l","d"," "," "," ","w","e","l","f","a","r","e","-","-","-","m","a","n","u","a","l">>) =>
           ret[1].folder_name = <<"c","h","i","l","d","-","w","e","l","f","a","r","e","-","m","a","n","u","a","l">>

\* The manual phrases among the keywords of rule 1.
ManualPhrases ==
    {<<"c","h","i","l","d"," ","w","e","l","f","a","r","e"," ","m","a","n","u","a","l">>, <<"c","w","s"," ","m","a","n","u","a","l">>, <<"r","a","m","s","-","m","a","n","u","a","l">>}

\* C24 (as the code has it): the manual keywords of rule 1 are the phrases
\* 'child welfare manual', 'cws manual' and 'rams-manual', not the word
\* 'manual': a text with one of the phrases is 'child-welfare-manuals', also
\* when it contains 'practice'; a text with 'manual' and 'practice' and no
\* keyword of rule 1 or rule 2 is 'child-welfare-practice-resources', as is
\* categorize_section('Practice Manual', 'unknown.pdf', 'random text').
C24_ManualPhrasesAreRuleOne ==
    pc = "done" =>
        \E text \in {SearchedText(arg)} :
            /\ (\E phrase \in ManualPhrases : Occurs(phrase, text))
                   => ret = ChildWelfareManuals
            /\ (/\ Occurs(<<"m","a","n","u","a","l">>, text)
                /\ Occurs(<<"p","r","a","c","t","i","c","e">>, text)
                /\ MatchingRules(text) \cap {1, 2} = {})
                   => ret = ChildWelfarePracticeResources
            /\ arg = [link_text |-> <<"P","r","a","c","t","i","c","e"," ","M","a","n","u","a","l">>,
                      link_url |-> <<"u","n","k","n","o","w","n",".","p","d","f">>,
                      nearby_text |-> <<"r","a","n","d","o","m"," ","t","e","x","t">>]
                   => ret = ChildWelfarePracticeResources

\* categorize_section has returned 'child-welfare-practice-resources' for a
\* text with 'manual' and 'practice' and no keyword of the first two rules.
C24_Witness ==
    /\ pc = "done"
    /\ Occurs(<<"m","a","n","u","a","l">>, SearchedText(arg))
    /\ Occurs(<<"p","r","a","c","t","i","c","e">>, SearchedText(arg))
    /\ MatchingRules(SearchedText(arg)) \cap {1, 2} = {}
    /\ ret = ChildWelfarePracticeResources

\* C24 as stated: any input whose text contains 'manual' is categorized as
\* 'child-welfare-manuals'.
C24_ManualAloneIsRuleOne ==
    (pc = "done" /\ Occurs(<<"m","a","n","u","a","l">>, SearchedText(arg)))
        => ret = ChildWelfareManuals

\* The text ends with '.pdf'.
EndsWithPdf(text) ==
    /\ Len(text) >= 4
    /\ SubSeq(text, Len(text) - 3, Len(text)) = <<".","p","d","f">>

\* The part of the path after its last '/'.
LastSegment(path) ==
    Let(CHOOSE k \in 0..Len(path) :
            /\ k > 0 => path[k] = "/"
            /\ \A j \in (k + 1)..Len(path) : path[j] # "/",
        LAMBDA k : SubSeq(path, k + 1, Len(path)))

\* The filename is the one the link of that url and text is to be filed as.
NamedAfterLink(filename, link_url, link_text) ==
    /\ EndsWithPdf(filename)
    /\ \E segment \in {LastSegment(urlparse(link_url, <<>>).path)} :
           IF segment # <<>> /\ EndsWithPdf(segment)
           THEN filename = segment
           ELSE filename
                    = sanitize_filename(IF link_text = <<>> THEN <<"d","o","c","u","m","e","n","t">>
                                        ELSE link_text) \o <<".","p","d","f">>

\* The result entries of links whose url has '.pdf' in the query string only.
NamedInQueryOnly ==
    {n \in DOMAIN results :
        /\ Occurs(<<"?">>, results[n].original_url)
        /\ ~EndsWithPdf(urlparse(results[n].original_url, <<>>).path)}

\* C25: the filename used for every upload and reported in every result
\* entry ends with '.pdf': it is the last path segment of the link's url when
\* that segment is not empty and ends with '.pdf', and otherwise
\* sanitize_filename of the link's text ('document' when the text is empty)
\* followed by '.pdf'; so it is for links with '.pdf' in the query string only.
C25_FilenamesEndWithPdf ==
    /\ pc = "uploading" =>
           NamedAfterLink(item.original_filename, item.pdf_link.url,
                          item.pdf_link.text)
    /\ \A n \in DOMAIN results :
           NamedAfterLink(results[n].filename, results[n].original_url,
                          results[n].link_text)
    /\ \A n \in DOMAIN bucket :
           EndsWithPdf(bucket[n].original_name)

\* A run has returned with two results: a link named by its path and a link
\* with '.pdf' in the query string only, named after its text.
C25_Witness ==
    /\ pc = "returned"
    /\ Len(results) = 2
    /\ NamedInQueryOnly # {}
    /\ NamedInQueryOnly # DOMAIN results
    /\ \A n \in DOMAIN results : EndsWithPdf(results[n].filename)

\* The keys put_object wrote during the invocation, and the keys the
\* results report.
WrittenKeys ==
    {trace[n].key : n \in Stored}

ReportedKeys ==
    {results[n].s3_key : n \in DOMAIN results}

\* The links whose download failed.
DownloadFailed ==
    {trace[n].index : n \in {f \in Failures : trace[f].op = "download"}}

\* C26: at the end of a run the set of keys written during the run equals
\* the set of s3_key values of the results: there is a result entry exactly
\* for the links whose upload succeeded, with the key that was written, and
\* a link in errors because its download failed has written nothing.
C26_ResultsMatchWrites ==
    (pc = "returned" /\ pdf_links # <<>>) =>
        /\ "results" \in DOMAIN response
        /\ response.results = results
        /\ WrittenKeys = ReportedKeys
        /\ Len(results) = Cardinality(Stored)
        /\ \A n \in DOMAIN results :
               \E w \in Stored :
                   /\ trace[w].key = results[n].s3_key
                   /\ pdf_links[trace[w].index].url = results[n].original_url
                   /\ Cardinality({v \in Stored : v <= w}) = n
        /\ \A k \in DownloadFailed :
               /\ \A n \in DOMAIN trace :
                      trace[n].index = k => trace[n].op # "put_object"
               /\ \E n \in DOMAIN errors : errors[n].url = pdf_links[k].url
               /\ \A n \in DOMAIN results :
                      results[n].original_url # pdf_links[k].url
        /\ run = 1 => DOMAIN bucket = ReportedKeys

\* A first run over two links has returned: the download of one failed and it
\* wrote nothing, the other was stored and reported.
C26_Witness ==
    /\ pc = "returned"
    /\ run = 1
    /\ Len(pdf_links) = 2
    /\ DownloadFailed = {1}
    /\ Len(results) = 1
    /\ DOMAIN bucket = {results[1].s3_key}
    /\ Len(errors) = 1

\* The download calls and the put_object calls made for link k.
DownloadCalls(k) ==
    {n \in DOMAIN trace : trace[n].op = "download" /\ trace[n].index = k}

UploadCalls(k) ==
    {n \in DOMAIN trace : trace[n].op = "put_object" /\ trace[n].index = k}

\* No link is downloaded or uploaded twice, and a link that failed is not
\* tried again: its failure is its last step.
NoRetry ==
    \A k \in DOMAIN pdf_links :
        /\ Cardinality(DownloadCalls(k)) <= 1
        /\ Cardinality(UploadCalls(k)) <= 1
        /\ \A n \in Failures :
               trace[n].index = k =>
                   \A later \in DOMAIN trace :
                       later > n => trace[later].index > k

\* C27: process_pdfs always terminates: when every fetch and store call
\* returns or raises, a started invocation eventually returns, after at most
\* one download call and one upload call per link and no retry of a failed
\* link.
C27_ProcessTerminates ==
    /\ [](NoRetry)
    /\ (pc = "discovering") ~> (pc = "returned")
    /\ (pc \in {"item", "downloading", "uploading"}) ~> (pc = "returned")

\* A run over two links has returned after the first failed to download and
\* the second failed to upload, each with one call.
C27_Witness ==
    /\ pc = "returned"
    /\ Len(pdf_links) = 2
    /\ Cardinality(DownloadCalls(1)) = 1
    /\ UploadCalls(1) = {}
    /\ Cardinality(UploadCalls(2)) = 1
    /\ Cardinality(Failures) = 2
    /\ "summary" \in DOMAIN response

\* C28: the success flag process_pdfs returns reflects discovery only: it is
\* true exactly when discovery did not raise, whatever happened to the
\* links; a run in which every discovered link fails to download or upload
\* returns success = true with successful = 0 and failed = total.
C28_SuccessReflectsDiscovery ==
    pc = "returned" =>
        /\ "success" \in DOMAIN response
        /\ trace # <<>>
        /\ trace[1].op = "discover"
        /\ response.success = trace[1].ok
        /\ (pdf_links # <<>> /\ Cardinality(Failures) = Len(pdf_links)) =>
               /\ response.success
               /\ response.summary.successful = 0
               /\ response.summary.failed = response.summary.total
               /\ response.summary.total = Len(pdf_links)
               /\ response.results = <<>>

\* A run over two links has returned success although the download of the
\* first and the upload of the second failed.
C28_Witness ==
    /\ pc = "returned"
    /\ Len(pdf_links) = 2
    /\ \E n \in Failures : trace[n].op = "download" /\ trace[n].index = 1
    /\ \E n \in Failures : trace[n].op = "put_object" /\ trace[n].index = 2
    /\ response.success
    /\ response.summary.successful = 0
    /\ response.summary.failed = 2

\* C29: within one run no stored object is overwritten by a later link of the
\* run: two distinct urls that are both stored are written under distinct
\* keys, so the number of distinct objects written equals summary.successful.
C29_NoOverwriteWithinRun ==
    (pc = "returned" /\ pdf_links # <<>>) =>
        /\ \A m, n \in DOMAIN results :
               results[m].original_url # results[n].original_url
                   => results[m].s3_key # results[n].s3_key
        /\ Cardinality(WrittenKeys) = response.summary.successful

\* The topic a response template belongs to, and the topic of a source list
\* (by its first file).
TopicOfResponse(text) ==
    CASE text = <<"*","S","o","u","r","c","e",":"," ","N","C","D","H","H","S"," ","C","h","i","l","d"," ","W","e","l","f","a","r","e"," ","M","a","n","u","a","l"," ","-"," ","C","P","S"," ","A","s","s","e","s","s","m","e","n","t"," ","P","r","o","c","e","d","u","r","e","s","*">>
             -> "cps assessment"
      [] text = <<"*","S","o","u","r","c","e",":"," ","N","C","D","H","H","S"," ","C","h","i","l","d"," ","W","e","l","f","a","r","e"," ","M","a","n","u","a","l"," ","-"," ","A","d","o","p","t","i","o","n"," ","S","e","r","v","i","c","e","s","*">>
             -> "adoption"
      [] text = <<"*","S","o","u","r","c","e",":"," ","N","C","D","H","H","S"," ","S","a","f","e"," ","S","l","e","e","p"," ","R","e","s","o","u","r","c","e","s"," ","a","n","d"," ","P","o","l","i","c","i","e","s","*">>
             -> "safe sleep"
      [] OTHER -> "general"

TopicOfSources(sources) ==
    CASE sources[1].filename = <<"c","p","s","-","a","s","s","e","s","s","m","e","n","t","s","-","m","a","y","-","2","0","2","5","-","1",".","p","d","f">> -> "cps assessment"
      [] sources[1].filename = <<"a","d","o","p","t","i","o","n","s","-","1",".","p","d","f">> -> "adoption"
      [] sources[1].filename = <<"s","a","f","e","-","s","l","e","e","p","-","p","o","l","i","c","y",".","p","d","f">> -> "safe sleep"
      [] OTHER -> "general"

\* C30: for every non-empty query handle_rag_query returns a response text
\* and a source list of the same topic (CPS assessment, adoption, safe sleep
\* or general), also for a query with 'cps' and 'evaluation' but not
\* 'assessment' and a query with 'sids' but not 'safe sleep'.
C30_ResponseAndSourcesAgree ==
    (pc = "done" /\ arg # <<>>) =>
        /\ ret.success
        /\ ret.sources # <<>>
        /\ TopicOfResponse(ret.response) = TopicOfSources(ret.sources)
====
